---- MODULE Spec2Model ----
(***************************************************************************)
(* A model of mlflow-rs: the REST client (src/src/backend/rest.rs), the    *)
(* storage revision of the same client (src/src/storage/server.rs) and the *)
(* buffering TrackingRun (src/src/tracking/run.rs).                        *)
(*                                                                         *)
(* The HTTP transport (ureq) and the tracking server are the environment:  *)
(* every response the transport can hand back is drawn from Responses.     *)
(* A response body is modelled as the JSON text it holds: the document     *)
(* tree plus, for a string token, whether its spelling uses an escape      *)
(* sequence, because serde_json can lend out a &str only for a token       *)
(* spelled without escapes.                                                *)
(***************************************************************************)
EXTENDS Integers, Sequences, FiniteSets, TLC

VARIABLES
    api_url,        \* Server.api_url                       (rest.rs:75)
    op,             \* the client operation invoked last, with its arguments
    http,           \* the HTTP requests that invocation issued, in order
    response,       \* the transport's answers to those requests, in order
    result,         \* what the invocation returned
    storage_buffer,  \* RunStorage.buffer                    (storage/server.rs:16)
    start_time,     \* TrackingRun.start_time               (tracking/run.rs:18)
    param_buffer,   \* TrackingRun.param_buffer             (tracking/run.rs:19)
    tag_buffer,     \* TrackingRun.tag_buffer               (tracking/run.rs:20)
    metric_buffer,  \* TrackingRun.metric_buffer            (tracking/run.rs:21)
    pc,             \* "open" until submit consumed the TrackingRun
    calls,          \* the Client calls submit made, in order, with their outcomes
    ret,            \* what submit returned
    n_metrics       \* history: how many times log_metric was called

restVars == <<api_url, op, http, response, result, storage_buffer>>
runVars ==
    <<start_time, param_buffer, tag_buffer, metric_buffer, pc, calls, ret, n_metrics>>
vars == <<api_url, op, http, response, result, storage_buffer,
          start_time, param_buffer, tag_buffer, metric_buffer, pc, calls, ret,
          n_metrics>>

-----------------------------------------------------------------------------
(* api::limits (the module itself is not among the sources; the values are  *)
(* the ones the spec and the messages of api/error.rs:23-29 give).          *)

BATCH_METRICS == 1000
BATCH_PARAMS == 100
BATCH_TAGS == 100
BATCH_TOTAL == 1000

-----------------------------------------------------------------------------
(* Bounds of the model.                                                     *)

\* how far around 0 and around each limit the lengths given to log_batch go
Slack == 1

-----------------------------------------------------------------------------
(* Results and errors.                                                      *)

Ok(v) == [ok |-> TRUE, value |-> v]
Err(e) == [ok |-> FALSE, err |-> e]
Unit == [unit |-> TRUE]
None == [none |-> TRUE]
Some(v) == [some |-> v]
NoResult == [ok |-> FALSE, err |-> [kind |-> "none"]]

\* anyhow::Error built from a message or a context, with what it wraps
Anyhow(context, cause) == [anyhow |-> context, cause |-> cause]

\* api::error::CreateError, GetError (= DeleteError = UpdateError), BatchError
AlreadyExists(name) == [kind |-> "AlreadyExists", name |-> name]
DoesNotExist(name) == [kind |-> "DoesNotExist", name |-> name]
Storage(cause) == [kind |-> "Storage", cause |-> cause]
ToManyItems(n) == [kind |-> "ToManyItems", n |-> n]
ToManyMetrics(n) == [kind |-> "ToManyMetrics", n |-> n]
ToManyParams(n) == [kind |-> "ToManyParams", n |-> n]
ToManyTags(n) == [kind |-> "ToManyTags", n |-> n]

-----------------------------------------------------------------------------
(* JSON texts.                                                              *)

\* a string token: the string it denotes and whether its spelling uses an escape
Str(text, escaped) == [type |-> "string", text |-> text, escaped |-> escaped]
Num(n) == [type |-> "number", n |-> n]
Obj(fields) == [type |-> "object", fields |-> fields]
\* a text that is no JSON document
NotJson(raw) == [type |-> "not_json", raw |-> raw]

HasField(doc, key) == doc.type = "object" /\ key \in DOMAIN doc.fields
HasStr(doc, key) == HasField(doc, key) /\ doc.fields[key].type = "string"

\* <String as Deserialize>: any string token, escapes decoded
deserialize_String(doc, key) ==
    IF HasStr(doc, key) THEN Ok(doc.fields[key].text) ELSE Err(Anyhow("json", doc))

Arr(items) == [type |-> "array", items |-> items]
Null == [type |-> "null"]

\* <&str as Deserialize>: only a token serde_json can lend out of the input,
\* that is one spelled without escapes (visit_str is refused)
deserialize_str(doc, key) ==
    IF HasStr(doc, key) /\ ~doc.fields[key].escaped
    THEN Ok(doc.fields[key].text)
    ELSE Err(Anyhow("json", doc))

-----------------------------------------------------------------------------
(* The environment: names, ids and the transport's responses.               *)

Names == {"foo", "bar"}
BaseUrls == {"http://localhost:5000/api"}

ALREADY_EXISTS == "RESOURCE_ALREADY_EXISTS"
DOES_NOT_EXIST == "RESOURCE_DOES_NOT_EXIST"
INVALID_VALUE == "INVALID_PARAMETER_VALUE"

\* error_code strings a server can send; the last one cannot be spelled
\* in JSON without an escape
PlainCodes == {ALREADY_EXISTS, DOES_NOT_EXIST, INVALID_VALUE,
               "INTERNAL_ERROR", "resource_already_exists"}
QuotedCodes == {"BAD\"CODE"}
CodeTokens == {Str(c, e) : c \in PlainCodes, e \in BOOLEAN}
                  \cup {Str(c, TRUE) : c \in QuotedCodes}
MessageTokens == {Str("x", FALSE), Str("no \"x\"", TRUE)}

Envelope(code, message) == Obj([error_code |-> code, message |-> message])
ExperimentDoc(id, name) ==
    Obj([experiment_id |-> Str(id, FALSE), name |-> Str(name, FALSE),
         artifact_location |-> Str("./mlruns/1", FALSE),
         lifecycle_stage |-> Str("active", FALSE)])

\* an experiment with its optional fields; its name and a tag value are
\* spelled with an escape
FullExperimentDoc(id, time) ==
    Obj([creation_time |-> time, last_update_time |-> time,
         tags |-> Arr(<<Obj([key |-> Str("owner", FALSE),
                             value |-> Str("a \"b\"", TRUE)])>>),
         name |-> Str("C:\\runs", TRUE)] @@ ExperimentDoc(id, "foo").fields)

\* the JSON of a RunInfo; start is the start_time token, ending the fields
\* that follow it (end_time is optional)
RunInfoDoc(id, status, start, ending) ==
    Obj([run_id |-> Str(id, FALSE), run_uuid |-> Str(id, FALSE),
         experiment_id |-> Str("1", FALSE), user_id |-> Str("u", FALSE),
         status |-> Str(status, FALSE), start_time |-> start,
         artifact_uri |-> Str("./mlruns/1", FALSE),
         lifecycle_stage |-> Str("active", FALSE)] @@ ending)
MetricDoc(key, step) ==
    Obj([key |-> Str(key, FALSE), value |-> Num(1), timestamp |-> Num(1600000000),
         step |-> Num(step)])
RunDataDoc == Obj([metrics |-> Arr(<<MetricDoc("loss", 0)>>)])
RunDoc(id, info) == Obj([info |-> info, data |-> RunDataDoc])
GoodInfo(id) == RunInfoDoc(id, "RUNNING", Str("1600000000", FALSE), <<>>)
EndedInfo(id) ==
    RunInfoDoc(id, "FINISHED", Str("1600000000", FALSE),
               [end_time |-> Str("1600000001", FALSE)])

CouldNotTurn == NotJson("Could not turn error body into String.")

Bodies ==
    {Envelope(c, m) : c \in CodeTokens, m \in MessageTokens}
        \cup {Obj([error_code |-> Str(ALREADY_EXISTS, FALSE)]),
              Obj([error_code |-> Num(404), message |-> Str("x", FALSE)]),
              Obj(<<>>),
              Obj([experiment_id |-> Str("7", FALSE)]),
              Obj([experiment_id |-> Str("7\\8", TRUE)]),
              Obj([experiment |-> ExperimentDoc("7", "foo")]),
              Obj([experiment |-> Obj([experiment_id |-> Str("7", FALSE)])]),
              Obj([experiment |-> FullExperimentDoc("7", Num(1600000000))]),
              Obj([experiment |-> FullExperimentDoc("7", Null)]),
              Obj([experiment |-> FullExperimentDoc("7", Str("1600000000", FALSE))]),
              Obj([experiments |-> Arr(<<ExperimentDoc("7", "foo"),
                                         ExperimentDoc("8", "bar")>>)]),
              Obj([run |-> RunDoc("r1", GoodInfo("r1"))]),
              Obj([run |-> RunDoc("r1", RunInfoDoc("r1", "running",
                                                   Str("1600000000", FALSE), <<>>))]),
              Obj([run |-> RunDoc("r1", RunInfoDoc("r1", "RUNNING",
                                                   Num(1600000000), <<>>))]),
              Obj([run |-> Obj([info |-> GoodInfo("r1")])]),
              Obj([run_info |-> EndedInfo("r1")]),
              Obj([run_info |-> RunInfoDoc("r1", "FINISHED",
                                           Str("1600000000", FALSE),
                                           [end_time |-> Str("soon", FALSE)])]),
              Obj([runs |-> Arr(<<RunDoc("r1", GoodInfo("r1")),
                                  RunDoc("r2", EndedInfo("r2"))>>),
                   next_page_token |-> Str("p2", FALSE)]),
              Obj([runs |-> Arr(<<Obj([info |-> EndedInfo("r2")]),
                                  RunDoc("r1", GoodInfo("r1"))>>),
                   next_page_token |-> Str("", FALSE)]),
              Obj([runs |-> Arr(<<>>)]),
              Obj([metrics |-> Arr(<<MetricDoc("loss", 0), MetricDoc("loss", 1)>>)]),
              Obj([metrics |-> Arr(<<Str("loss", FALSE)>>)]),
              NotJson("<html>Bad Gateway</html>")}

Statuses == {200, 400, 404, 500}

\* a ureq::Response: its status, the text of its body and whether
\* into_string() can read that body to the end
Responses == [status : Statuses, body : Bodies, readable : BOOLEAN]

\* ureq::Response::error(): a 4xx or 5xx status
IsError(resp) == resp.status >= 400

\* ureq::Response::into_string()
into_string(resp) ==
    IF resp.readable THEN Ok(resp.body) ELSE Err(Anyhow("io", None))

-----------------------------------------------------------------------------
(* backend/rest.rs: error codes and the transport.                          *)

ResourceAlreadyExists == [code |-> "ResourceAlreadyExists"]
ResourceDoesNotExist == [code |-> "ResourceDoesNotExist"]
InvalidParameterValue == [code |-> "InvalidParameterValue"]
UnknownCode(value) == [code |-> "Unknown", value |-> value]

\* impl From<&str> for RestErrorCode
RestErrorCode_from(value) ==
    CASE value = "RESOURCE_ALREADY_EXISTS" -> ResourceAlreadyExists
      [] value = "RESOURCE_DOES_NOT_EXIST" -> ResourceDoesNotExist
      [] value = "INVALID_PARAMETER_VALUE" -> InvalidParameterValue
      [] OTHER -> UnknownCode(value)

\* #[serde(from = "&str")] enum RestErrorCode: deserialize a &str, then From
RestErrorCode_deserialize(doc, key) ==
    LET s == deserialize_str(doc, key)
    IN  IF s.ok THEN Ok(RestErrorCode_from(s.value)) ELSE s

\* serde_json::from_str::<RestErrorResponse>
RestErrorResponse_from_str(body) ==
    LET error_code == RestErrorCode_deserialize(body, "error_code")
        message == deserialize_String(body, "message")
    IN  IF error_code.ok /\ message.ok
        THEN Ok([error_code |-> error_code.value, message |-> message.value])
        ELSE Err(Anyhow("json", body))

\* enum RestError
Known(status, code, message) ==
    [variant |-> "Known", status |-> status, code |-> code, message |-> message]
Unknown(status, body) == [variant |-> "Unknown", status |-> status, body |-> body]

parse_error(resp) ==
    LET status == resp.status
        text == into_string(resp)
        body == IF text.ok THEN text.value ELSE CouldNotTurn
        parsed == RestErrorResponse_from_str(body)
    IN  IF parsed.ok
        THEN Known(status, parsed.value.error_code, parsed.value.message)
        ELSE Unknown(status, body)

\* Endpoint::PATH
PATH(ep) ==
    CASE ep = "CreateExperiment" -> "2.0/mlflow/experiments/create"
      [] ep = "GetExperiment" -> "2.0/mlflow/experiments/get"
      [] ep = "UpdateExperiment" -> "2.0/mlflow/experiments/update"
      [] ep = "ListExperiments" -> "2.0/mlflow/experiments/list"
      [] ep = "GetExperimentByName" -> "2.0/mlflow/experiments/get-by-name"
      [] ep = "DeleteExperiment" -> "2.0/mlflow/experiments/delete"
      [] ep = "CreateRun" -> "2.0/mlflow/runs/create"
      [] ep = "DeleteRun" -> "2.0/mlflow/runs/delete"
      [] ep = "GetRun" -> ""
      [] ep = "LogParam" -> "2.0/mlflow/runs/log-parameter"
      [] ep = "LogMetric" -> "2.0/mlflow/runs/log-metric"
      [] ep = "UpdateRun" -> "2.0/mlflow/runs/update"
      [] ep = "LogBatch" -> "2.0/mlflow/runs/log-batch"
      [] ep = "SearchRuns" -> ""
      [] ep = "ListRunInfos" -> ""
      [] ep = "GetHistory" -> "2.0/mlflow/metrics/get-history"

\* Endpoint::METHOD
METHOD(ep) ==
    IF ep \in {"GetExperiment", "ListExperiments", "GetExperimentByName",
               "GetRun", "GetHistory"}
    THEN "Get" ELSE "Post"

\* the endpoints declared through VoidEndpoint: Response = VoidResponse
VoidEndpoints ==
    {"UpdateExperiment", "DeleteExperiment", "DeleteRun", "LogParam",
     "LogMetric", "LogBatch"}

\* a field of a document, and the elements of an array field
Missing == [type |-> "missing"]
field(doc, key) == IF HasField(doc, key) THEN doc.fields[key] ELSE Missing
IsArray(doc, key) == HasField(doc, key) /\ doc.fields[key].type = "array"
IsAbsent(doc, key) == ~HasField(doc, key) \/ doc.fields[key].type = "null"
elements(doc, key) == IF IsArray(doc, key) THEN doc.fields[key].items ELSE <<>>

\* a derived Deserialize for a struct: every field must deserialize; results
\* holds the outcome for each field
build(results, doc) ==
    IF \A k \in DOMAIN results : results[k].ok
    THEN Ok([k \in DOMAIN results |-> results[k].value])
    ELSE Err(Anyhow("json", doc))

\* a Vec out of the results of its elements
collect(results) ==
    IF \A i \in 1..Len(results) : results[i].ok
    THEN Ok([i \in 1..Len(results) |-> results[i].value])
    ELSE Err(Anyhow("json", None))

\* a number token read as an i64 or an f64
deserialize_number(doc, key) ==
    IF HasField(doc, key) /\ doc.fields[key].type = "number"
    THEN Ok(doc.fields[key].n)
    ELSE Err(Anyhow("json", doc))

\* the characters of a decimal digit and the digit each spells
Digits == "0123456789"
IsDigit(c) == \E d \in 1..10 : SubSeq(Digits, d, d) = c
digit(c) == (CHOOSE d \in 1..10 : SubSeq(Digits, d, d) = c) - 1
RECURSIVE digits_value(_)
digits_value(s) ==
    IF s = ""
    THEN 0
    ELSE digits_value(SubSeq(s, 1, Len(s) - 1)) * 10
            + digit(SubSeq(s, Len(s), Len(s)))

\* i64::from_str: an optional sign, then one decimal digit or more and nothing
\* else (the values read here stay far from the ends of i64)
i64_from_str(s) ==
    LET signed == Len(s) > 0 /\ SubSeq(s, 1, 1) \in {"+", "-"}
        digits == IF signed THEN SubSeq(s, 2, Len(s)) ELSE s
    IN  IF digits = "" \/ \E i \in 1..Len(digits) : ~IsDigit(SubSeq(digits, i, i))
        THEN Err(Anyhow("invalid digit found in string", s))
        ELSE IF SubSeq(s, 1, 1) = "-"
        THEN Ok(0 - digits_value(digits))
        ELSE Ok(digits_value(digits))

\* format!("{}", int) for an i64: a '-' for a negative value, then the digits
\* with no leading zero
RECURSIVE format_digits(_)
format_digits(n) ==
    IF n < 10
    THEN SubSeq(Digits, n + 1, n + 1)
    ELSE format_digits(n \div 10) \o SubSeq(Digits, (n % 10) + 1, (n % 10) + 1)
format_i64(int) ==
    IF int < 0 THEN "-" \o format_digits(0 - int) ELSE format_digits(int)

\* api::str_int::deserialize: a String, then i64::from_str
str_int_deserialize(doc, key) ==
    IF HasStr(doc, key)
    THEN i64_from_str(doc.fields[key].text)
    ELSE Err(Anyhow("json", doc))

\* api::opt_str_int::deserialize under #[serde(default)]: a missing field
\* and null give None
some(r) == IF r.ok THEN Ok(Some(r.value)) ELSE r
opt_str_int_deserialize(doc, key) ==
    IF IsAbsent(doc, key) THEN Ok(None) ELSE some(str_int_deserialize(doc, key))

\* api::str_int::serialize and api::opt_str_int::serialize: the String that
\* format! gives, and null for None
str_int_serialize(int) == Str(format_i64(int), FALSE)
opt_str_int_serialize(int) ==
    IF int = None THEN Null ELSE str_int_serialize(int.some)

\* enum RunStatus, #[serde(rename_all = "UPPERCASE")]
RunStatusTokens ==
    [Running |-> "RUNNING", Scheduled |-> "SCHEDULED", Finished |-> "FINISHED",
     Failed |-> "FAILED", Killed |-> "KILLED"]
\* RunStatus decoding a token it does not know as Running
RunStatus_deserialize_defaults(doc, key) ==
    IF HasStr(doc, key)
          /\ \E v \in DOMAIN RunStatusTokens :
                RunStatusTokens[v] = doc.fields[key].text
    THEN Ok(CHOOSE v \in DOMAIN RunStatusTokens :
                RunStatusTokens[v] = doc.fields[key].text)
    ELSE Ok("Running")

RunStatus_serialize(status) == Str(RunStatusTokens[status], FALSE)
RunStatus_deserialize(doc, key) ==
    IF HasStr(doc, key)
          /\ \E v \in DOMAIN RunStatusTokens :
                RunStatusTokens[v] = doc.fields[key].text
    THEN Ok(CHOOSE v \in DOMAIN RunStatusTokens :
                RunStatusTokens[v] = doc.fields[key].text)
    ELSE Err(Anyhow("unknown variant", doc))

\* api::run::RunInfo (derive(Deserialize))
RunInfo_deserialize(doc) ==
    build([run_id |-> deserialize_String(doc, "run_id"),
           run_uuid |-> deserialize_String(doc, "run_uuid"),
           experiment_id |-> deserialize_String(doc, "experiment_id"),
           user_id |-> deserialize_String(doc, "user_id"),
           status |-> RunStatus_deserialize(doc, "status"),
           start_time |-> str_int_deserialize(doc, "start_time"),
           end_time |-> opt_str_int_deserialize(doc, "end_time"),
           artifact_uri |-> deserialize_String(doc, "artifact_uri"),
           lifecycle_stage |-> deserialize_String(doc, "lifecycle_stage")], doc)

\* api::run::Metric (derive(Deserialize))
Metric_deserialize(doc) ==
    build([key |-> deserialize_String(doc, "key"),
           value |-> deserialize_number(doc, "value"),
           timestamp |-> deserialize_number(doc, "timestamp"),
           step |-> deserialize_number(doc, "step")], doc)

\* Vec<Metric>
Metrics_deserialize(doc, key) ==
    IF IsArray(doc, key)
    THEN collect([i \in 1..Len(elements(doc, key)) |->
                     Metric_deserialize(elements(doc, key)[i])])
    ELSE Err(Anyhow("json", doc))

\* api::run::Param and RunTag: a key and a value
KeyValue_deserialize(doc) ==
    build([key |-> deserialize_String(doc, "key"),
           value |-> deserialize_String(doc, "value")], doc)
KeyValues_deserialize(doc, key) ==
    IF IsArray(doc, key)
    THEN collect([i \in 1..Len(elements(doc, key)) |->
                     KeyValue_deserialize(elements(doc, key)[i])])
    ELSE Err(Anyhow("json", doc))

\* Option<Vec<Metric>> and Option<Vec<Param>>: None when missing or null
OptMetrics_deserialize(doc, key) ==
    IF IsAbsent(doc, key) THEN Ok(None) ELSE some(Metrics_deserialize(doc, key))
OptKeyValues_deserialize(doc, key) ==
    IF IsAbsent(doc, key) THEN Ok(None) ELSE some(KeyValues_deserialize(doc, key))

\* Option<i64>: None when missing or null, else a number token
OptI64_deserialize(doc, key) ==
    IF IsAbsent(doc, key) THEN Ok(None) ELSE some(deserialize_number(doc, key))

\* api::experiment::Experiment out of a JSON object (derive(Deserialize))
Experiment_deserialize(doc) ==
    build([experiment_id |-> deserialize_String(doc, "experiment_id"),
           name |-> deserialize_String(doc, "name"),
           artifact_location |-> deserialize_String(doc, "artifact_location"),
           lifecycle_stage |-> deserialize_String(doc, "lifecycle_stage"),
           last_update_time |-> OptI64_deserialize(doc, "last_update_time"),
           creation_time |-> OptI64_deserialize(doc, "creation_time"),
           tags |-> OptKeyValues_deserialize(doc, "tags")], doc)

\* serde_json writing a String: a quote or a backslash in it is escaped
String_serialize(text) ==
    Str(text, \E i \in 1..Len(text) : SubSeq(text, i, i) \in {"\"", "\\"})
\* Option<i64> and Option<Vec<ExperimentTag>> written: null for None
OptI64_serialize(int) == IF int = None THEN Null ELSE Num(int.some)
OptKeyValues_serialize(tags) ==
    IF tags = None
    THEN Null
    ELSE Arr([i \in 1..Len(tags.some) |->
                 Obj([key |-> String_serialize(tags.some[i].key),
                      value |-> String_serialize(tags.some[i].value)])])

\* Experiment written without its tags
Experiment_serialize_without_tags(e) ==
    Obj([experiment_id |-> String_serialize(e.experiment_id),
         name |-> String_serialize(e.name),
         artifact_location |-> String_serialize(e.artifact_location),
         lifecycle_stage |-> String_serialize(e.lifecycle_stage),
         last_update_time |-> OptI64_serialize(e.last_update_time),
         creation_time |-> OptI64_serialize(e.creation_time),
         tags |-> Null])

\* api::experiment::Experiment into a JSON object (derive(Serialize))
Experiment_serialize(e) ==
    Obj([experiment_id |-> String_serialize(e.experiment_id),
         name |-> String_serialize(e.name),
         artifact_location |-> String_serialize(e.artifact_location),
         lifecycle_stage |-> String_serialize(e.lifecycle_stage),
         last_update_time |-> OptI64_serialize(e.last_update_time),
         creation_time |-> OptI64_serialize(e.creation_time),
         tags |-> OptKeyValues_serialize(e.tags)])


\* Vec<Experiment>
Experiments_deserialize(doc, key) ==
    IF IsArray(doc, key)
    THEN collect([i \in 1..Len(elements(doc, key)) |->
                     Experiment_deserialize(elements(doc, key)[i])])
    ELSE Err(Anyhow("json", doc))

\* api::run::RunData (derive(Deserialize))
RunData_deserialize(doc) ==
    IF doc.type = "object"
    THEN build([metrics |-> OptMetrics_deserialize(doc, "metrics"),
                params |-> OptKeyValues_deserialize(doc, "params"),
                tags |-> OptKeyValues_deserialize(doc, "tags")], doc)
    ELSE Err(Anyhow("json", doc))

\* api::run::Run (derive(Deserialize))
Run_deserialize(doc) ==
    build([info |-> RunInfo_deserialize(field(doc, "info")),
           data |-> RunData_deserialize(field(doc, "data"))], doc)

\* Vec<Run>
Runs_deserialize(doc, key) ==
    IF IsArray(doc, key)
    THEN collect([i \in 1..Len(elements(doc, key)) |->
                     Run_deserialize(elements(doc, key)[i])])
    ELSE Err(Anyhow("json", doc))

\* ListRunInfosRun: info is read, data is skipped; and Vec<ListRunInfosRun>
ListRunInfosRun_deserialize(doc) ==
    build([info |-> RunInfo_deserialize(field(doc, "info"))], doc)
ListRunInfosRuns_deserialize(doc, key) ==
    IF IsArray(doc, key)
    THEN collect([i \in 1..Len(elements(doc, key)) |->
                     ListRunInfosRun_deserialize(elements(doc, key)[i])])
    ELSE Err(Anyhow("json", doc))

\* EndpointExt::read_response_string: serde_json::from_str::<Ep::Response>
read_response_string(ep, body) ==
    CASE ep \in VoidEndpoints ->
            IF body.type = "object" THEN Ok(Unit) ELSE Err(Anyhow("json", body))
      [] ep = "CreateExperiment" ->
            build([experiment_id |-> deserialize_String(body, "experiment_id")],
                  body)
      [] ep \in {"GetExperiment", "GetExperimentByName"} ->
            build([experiment |->
                      Experiment_deserialize(field(body, "experiment"))], body)
      [] ep = "ListExperiments" ->
            build([experiments |-> Experiments_deserialize(body, "experiments")],
                  body)
      [] ep \in {"CreateRun", "GetRun"} ->
            build([run |-> Run_deserialize(field(body, "run"))], body)
      [] ep = "UpdateRun" ->
            build([run_info |-> RunInfo_deserialize(field(body, "run_info"))],
                  body)
      [] ep = "SearchRuns" ->
            build([runs |-> Runs_deserialize(body, "runs"),
                   next_page_token |-> deserialize_String(body, "next_page_token")],
                  body)
      [] ep = "ListRunInfos" ->
            build([runs |-> ListRunInfosRuns_deserialize(body, "runs"),
                   next_page_token |-> deserialize_String(body, "next_page_token")],
                  body)
      [] ep = "GetHistory" ->
            build([metrics |-> Metrics_deserialize(body, "metrics")], body)

\* Endpoint::extract
extract(ep, resp) ==
    CASE ep \in VoidEndpoints -> Unit
      [] ep = "CreateExperiment" -> resp.experiment_id
      [] ep \in {"GetExperiment", "GetExperimentByName"} -> resp.experiment
      [] ep = "ListExperiments" -> resp.experiments
      [] ep \in {"CreateRun", "GetRun"} -> resp.run
      [] ep = "UpdateRun" -> resp.run_info
      [] ep = "SearchRuns" -> resp
      [] ep = "ListRunInfos" ->
            [runs |-> [i \in 1..Len(resp.runs) |-> resp.runs[i].info],
             page_token |-> resp.next_page_token]
      [] ep = "GetHistory" -> resp.metrics

\* the request ureq is given: a GET carries the request as a query string
\* (serde_qs), a POST as a JSON body (serde_json)
HttpRequest(method, url, request) ==
    [method |-> method, url |-> url,
     query |-> IF method = "Get" THEN request ELSE None,
     body |-> IF method = "Get" THEN None ELSE request]

\* EndpointExt::write_request_body_string for CreateRun and UpdateRun:
\* serde_json::to_string of the derived Serialize
CreateRun_serialize(request) ==
    Obj([experiment_id |-> Str(request.experiment_id, FALSE),
         start_time |-> Num(request.start_time),
         tags |-> Arr([i \in 1..Len(request.tags) |->
                          Obj([key |-> Str(request.tags[i].key, FALSE),
                               value |-> Str(request.tags[i].value, FALSE)])])])
UpdateRun_serialize(request) ==
    Obj([run_id |-> Str(request.run_id, FALSE),
         status |-> RunStatus_serialize(request.status),
         end_time |-> Num(request.end_time)])

\* Err: From<anyhow::Error>, used by `?`: the Storage variant (#[from]) of
\* every error type execute is called with
from_anyhow(e) == Storage(e)

\* the closures handed to execute: |error| match error { Known { code, .. } =>
\* gives, _ => Storage(error) }; with no code, |err| Storage(err)
Handler(code, gives) == [code |-> code, gives |-> gives]
error_handler(hand, error) ==
    IF error.variant = "Known" /\ error.code = hand.code
    THEN hand.gives
    ELSE Storage(error)

\* execute sending the request a second time when the first answer is an error
execute_retries(ep, request, resp, hand) ==
    LET url == api_url \o "/" \o PATH(ep)
        sent == <<HttpRequest(METHOD(ep), url, request)>>
        response_string == into_string(resp)
        parsed == read_response_string(ep, response_string.value)
    IN  [http |-> IF IsError(resp) THEN sent \o sent ELSE sent,
         result |->
            IF IsError(resp)
            THEN Err(error_handler(hand, parse_error(resp)))
            ELSE IF ~response_string.ok
            THEN Err(from_anyhow(Anyhow("failed to turn response into string",
                                        response_string.err)))
            ELSE IF ~parsed.ok
            THEN Err(from_anyhow(Anyhow("deserializing response failed",
                                        response_string.value)))
            ELSE Ok(extract(ep, parsed.value))]

\* execute handing a body it cannot deserialize to the error handler, as a
\* missing resource
execute_maps_bad_body(ep, request, resp, hand) ==
    LET url == api_url \o "/" \o PATH(ep)
        sent == <<HttpRequest(METHOD(ep), url, request)>>
        response_string == into_string(resp)
        parsed == read_response_string(ep, response_string.value)
    IN  [http |-> sent,
         result |->
            IF IsError(resp)
            THEN Err(error_handler(hand, parse_error(resp)))
            ELSE IF ~response_string.ok
            THEN Err(from_anyhow(Anyhow("failed to turn response into string",
                                        response_string.err)))
            ELSE IF ~parsed.ok
            THEN Err(error_handler(hand, Known(resp.status, ResourceDoesNotExist,
                                               "deserializing response failed")))
            ELSE Ok(extract(ep, parsed.value))]

\* Server::execute: the request it issues and, given the transport's answer,
\* the value it returns
execute(ep, request, resp, hand) ==
    LET url == api_url \o "/" \o PATH(ep)
        sent == <<HttpRequest(METHOD(ep), url, request)>>
        response_string == into_string(resp)
        parsed == read_response_string(ep, response_string.value)
    IN  [http |-> sent,
         result |->
            IF IsError(resp)
            THEN Err(error_handler(hand, parse_error(resp)))
            ELSE IF ~response_string.ok
            THEN Err(from_anyhow(Anyhow("failed to turn response into string",
                                        response_string.err)))
            ELSE IF ~parsed.ok
            THEN Err(from_anyhow(Anyhow("deserializing response failed",
                                        response_string.value)))
            ELSE Ok(extract(ep, parsed.value))]

-----------------------------------------------------------------------------
(* backend/rest.rs: impl Client for Server.  Each operator gives the HTTP   *)
(* requests one invocation issues and the value it returns.                 *)

create_experiment(name, resp) ==
    execute("CreateExperiment", [name |-> name, artifact_location |-> None], resp,
            Handler(ResourceAlreadyExists, AlreadyExists(name)))

get_experiment_by_name(name, resp) ==
    execute("GetExperimentByName", [experiment_name |-> name], resp,
            Handler(ResourceDoesNotExist, DoesNotExist(name)))

list_experiments(view_type, resp) ==
    execute("ListExperiments", [view_type |-> view_type], resp, Handler(None, None))

get_experiment(id, resp) ==
    execute("GetExperiment", [experiment_id |-> id], resp,
            Handler(ResourceDoesNotExist, DoesNotExist(id)))

delete_experiment(id, resp) ==
    execute("DeleteExperiment", [experiment_id |-> id], resp,
            Handler(ResourceDoesNotExist, DoesNotExist(id)))

update_experiment(id, new_name, resp) ==
    execute("UpdateExperiment", [experiment_id |-> id, new_name |-> new_name],
            resp, Handler(None, None))

create_run(experiment_id, time, tags, resp) ==
    execute("CreateRun",
            [experiment_id |-> experiment_id, start_time |-> time, tags |-> tags],
            resp, Handler(None, None))

delete_run(id, resp) ==
    execute("DeleteRun", [run_id |-> id], resp,
            Handler(ResourceDoesNotExist, DoesNotExist(id)))

get_run(id, resp) ==
    execute("GetRun", [run_id |-> id], resp,
            Handler(ResourceDoesNotExist, DoesNotExist(id)))

update_run(id, status, end_time, resp) ==
    execute("UpdateRun", [run_id |-> id, status |-> status, end_time |-> end_time],
            resp, Handler(ResourceDoesNotExist, DoesNotExist(id)))

search_runs(experiment_ids, filter, run_view_type, max_results, order_by, page_token, resp) ==
    execute("SearchRuns",
            [experiment_ids |-> experiment_ids, filter |-> filter,
             run_view_type |-> run_view_type, max_results |-> max_results,
             order_by |-> order_by, page_token |-> page_token],
            resp, Handler(None, None))

\* list_run_infos searching with a filter of its own and no page token
list_run_infos_own_request(experiment, run_view_type, max_results, order_by, page_token, resp) ==
    execute("ListRunInfos",
            [experiment_ids |-> <<experiment>>, filter |-> "attributes.status = 'RUNNING'",
             run_view_type |-> run_view_type, max_results |-> max_results,
             order_by |-> order_by, page_token |-> None],
            resp, Handler(None, None))

list_run_infos(experiment, run_view_type, max_results, order_by, page_token, resp) ==
    execute("ListRunInfos",
            [experiment_ids |-> <<experiment>>, filter |-> "",
             run_view_type |-> run_view_type, max_results |-> max_results,
             order_by |-> order_by, page_token |-> page_token],
            resp, Handler(None, None))

\* get_metric_history naming the metric, not the run, that does not exist
get_metric_history_names_metric(run, metric, resp) ==
    execute("GetHistory", [run_id |-> run, metric_key |-> metric], resp,
            Handler(ResourceDoesNotExist, DoesNotExist(metric)))

get_metric_history(run, metric, resp) ==
    execute("GetHistory", [run_id |-> run, metric_key |-> metric], resp,
            Handler(ResourceDoesNotExist, DoesNotExist(run)))

\* Client::log_param and Client::log_metric of the Server
rest_log_param(run_id, key, value, resp) ==
    execute("LogParam", [run_id |-> run_id, key |-> key, value |-> value], resp,
            Handler(None, None))

rest_log_metric(run_id, key, value, timestamp, step, resp) ==
    execute("LogMetric",
            [run_id |-> run_id, key |-> key, value |-> value,
             timestamp |-> timestamp, step |-> step],
            resp, Handler(None, None))

\* the tail of log_batch: the LogBatch request handed to execute
log_batch_request(run, metrics, params, tags, resp) ==
    execute("LogBatch",
            [run_id |-> run, metrics |-> metrics, params |-> params, tags |-> tags],
            resp,
            Handler(None, None))

rejected(e) == [http |-> <<>>, result |-> Err(e)]

\* log_batch with the request issued before the limits are looked at
log_batch_sends_first(run, metrics, params, tags, resp) ==
    LET total_len == Len(metrics) + Len(params) + Len(tags)
        sent == log_batch_request(run, metrics, params, tags, resp)
        late(e) == [http |-> sent.http, result |-> Err(e)]
    IN  IF Len(metrics) > BATCH_METRICS
        THEN late(ToManyMetrics(Len(metrics)))
        ELSE IF Len(params) > BATCH_PARAMS
        THEN late(ToManyParams(Len(params)))
        ELSE IF Len(tags) > BATCH_TAGS
        THEN late(ToManyTags(Len(tags)))
        ELSE IF total_len > BATCH_TOTAL
        THEN late(ToManyItems(total_len))
        ELSE sent

\* log_batch with the params looked at before the metrics
log_batch_params_first(run, metrics, params, tags, resp) ==
    LET total_len == Len(metrics) + Len(params) + Len(tags)
    IN  IF Len(params) > BATCH_PARAMS
        THEN rejected(ToManyParams(Len(params)))
        ELSE IF Len(metrics) > BATCH_METRICS
        THEN rejected(ToManyMetrics(Len(metrics)))
        ELSE IF Len(tags) > BATCH_TAGS
        THEN rejected(ToManyTags(Len(tags)))
        ELSE IF total_len > BATCH_TOTAL
        THEN rejected(ToManyItems(total_len))
        ELSE log_batch_request(run, metrics, params, tags, resp)

\* log_batch with the tags left out of the total
log_batch_total_without_tags(run, metrics, params, tags, resp) ==
    LET total_len == Len(metrics) + Len(params)
    IN  IF Len(metrics) > BATCH_METRICS
        THEN rejected(ToManyMetrics(Len(metrics)))
        ELSE IF Len(params) > BATCH_PARAMS
        THEN rejected(ToManyParams(Len(params)))
        ELSE IF Len(tags) > BATCH_TAGS
        THEN rejected(ToManyTags(Len(tags)))
        ELSE IF total_len > BATCH_TOTAL
        THEN rejected(ToManyItems(total_len))
        ELSE log_batch_request(run, metrics, params, tags, resp)

\* log_batch with the limits exclusive
log_batch_exclusive(run, metrics, params, tags, resp) ==
    LET total_len == Len(metrics) + Len(params) + Len(tags)
    IN  IF Len(metrics) >= BATCH_METRICS
        THEN rejected(ToManyMetrics(Len(metrics)))
        ELSE IF Len(params) >= BATCH_PARAMS
        THEN rejected(ToManyParams(Len(params)))
        ELSE IF Len(tags) >= BATCH_TAGS
        THEN rejected(ToManyTags(Len(tags)))
        ELSE IF total_len >= BATCH_TOTAL
        THEN rejected(ToManyItems(total_len))
        ELSE log_batch_request(run, metrics, params, tags, resp)

log_batch(run, metrics, params, tags, resp) ==
    LET total_len == Len(metrics) + Len(params) + Len(tags)
    IN  IF Len(metrics) > BATCH_METRICS
        THEN rejected(ToManyMetrics(Len(metrics)))
        ELSE IF Len(params) > BATCH_PARAMS
        THEN rejected(ToManyParams(Len(params)))
        ELSE IF Len(tags) > BATCH_TAGS
        THEN rejected(ToManyTags(Len(tags)))
        ELSE IF total_len > BATCH_TOTAL
        THEN rejected(ToManyItems(total_len))
        ELSE log_batch_request(run, metrics, params, tags, resp)

-----------------------------------------------------------------------------
(* storage/server.rs: the storage revision of the client.                   *)

\* Endpoints::new
Endpoints_new(base) ==
    LET api == base \o "/2.0/mlflow"
    IN  [experiments_create |-> api \o "/experiments/create",
         experiments_list |-> api \o "/experiments/list",
         experiments_get |-> api \o "/experiments/get-by-name",
         runs_create |-> api \o "/runs/create",
         runs_update |-> api \o "/runs/update",
         runs_log_param |-> api \o "/runs/log-parameter",
         runs_log_metric |-> api \o "/runs/log-metric",
         runs_log_batch |-> api \o "/runs/log-batch"]

\* serde_json::from_str::<api::ErrorResponse>: both fields are &str
storage_ErrorResponse_from_str(body) ==
    LET error_code == deserialize_str(body, "error_code")
        message == deserialize_str(body, "message")
    IN  IF error_code.ok /\ message.ok
        THEN Ok([error_code |-> error_code.value, message |-> message.value])
        ELSE Err(Anyhow("json", body))

\* Server::get_experiment: ureq::get(endpoint).send_string(&request)
storage_get_experiment(experiment_name, resp) ==
    LET request == [experiment_name |-> experiment_name]
        endpoint == Endpoints_new(api_url).experiments_get
        sent == <<[method |-> "Get", url |-> endpoint, query |-> None,
                   body |-> request]>>
        body == into_string(resp)
        error == storage_ErrorResponse_from_str(body.value)
        experiment == Experiment_deserialize(body.value.fields["experiment"])
    IN  [http |-> sent,
         result |->
            IF IsError(resp)
            THEN IF ~body.ok
                 THEN Err(Storage(Anyhow("turning error response into string",
                                         body.err)))
                 ELSE IF resp.status = 404
                 THEN IF ~error.ok
                      THEN Err(Storage(Anyhow("deserializing error body", error.err)))
                      ELSE IF error.value.error_code = DOES_NOT_EXIST
                      THEN Err(DoesNotExist(experiment_name))
                      ELSE Err(Storage(Anyhow("Unknown error code", error.value)))
                 ELSE Err(Storage(Anyhow("request failed with status code",
                                         [status |-> resp.status,
                                          body |-> body.value])))
            ELSE IF ~body.ok
            THEN Err(Storage(Anyhow("turning response body into string", body.err)))
            ELSE IF ~HasField(body.value, "experiment") \/ ~experiment.ok
            THEN Err(Storage(Anyhow("deserializing json", body.value)))
            ELSE Ok(experiment.value)]

\* what .unwrap() makes of a Result
unwrap(r) == IF r.ok THEN r ELSE [ok |-> FALSE, err |-> [kind |-> "panic"]]

\* Server::create_experiment; resp2 answers the get_experiment that follows
\* a successful create
storage_create_experiment(name, resp, resp2) ==
    LET request == [name |-> name]
        endpoint == Endpoints_new(api_url).experiments_create
        sent == <<[method |-> "Post", url |-> endpoint, query |-> None,
                   body |-> request]>>
        body == into_string(resp)
        error == storage_ErrorResponse_from_str(body.value)
        created == deserialize_str(body.value, "experiment_id")
        fetched == storage_get_experiment(name, resp2)
        failed(e) == [http |-> sent, result |-> Err(e)]
    IN  IF IsError(resp)
        THEN IF ~body.ok
             THEN failed(Storage(Anyhow("turning error response into string",
                                        body.err)))
             ELSE IF resp.status = 400
             THEN IF ~error.ok
                  THEN failed(Storage(Anyhow("deserializing error body", error.err)))
                  ELSE IF error.value.error_code = ALREADY_EXISTS
                  THEN failed(AlreadyExists(name))
                  ELSE failed(Storage(Anyhow("Unknown error code", error.value)))
             ELSE failed(Storage(Anyhow("request failed with status code",
                                        [status |-> resp.status,
                                         body |-> body.value])))
        ELSE IF ~body.ok
        THEN failed(Storage(Anyhow("turning response body into string", body.err)))
        ELSE IF ~created.ok
        THEN failed(Storage(Anyhow("deserializing json", body.value)))
        ELSE [http |-> sent \o fetched.http, result |-> unwrap(fetched.result)]

\* validate_response: an error status gives an error naming it and the body
validate_response(resp) ==
    IF IsError(resp)
    THEN IF into_string(resp).ok
         THEN Err(Storage(Anyhow("request failed with status code",
                                 [status |-> resp.status, body |-> resp.body])))
         ELSE Err(Storage(into_string(resp).err))
    ELSE Ok(resp)

\* one pass of the while loop of Server::log_batch: the request it posts
storage_log_batch_request(run, metrics) ==
    LET count == IF Len(metrics) < 1000 THEN Len(metrics) ELSE 1000
    IN  [method |-> "Post", url |-> Endpoints_new(api_url).runs_log_batch,
         query |-> None,
         body |-> [run_id |-> run, metrics |-> SubSeq(metrics, 1, count),
                   params |-> <<>>]]

-----------------------------------------------------------------------------
(* The REST client driven by a caller.                                      *)

RunIds == {"r1", "r2"}

\* a slice of n items; an item is known by its position
Items(n) == [i \in 1..n |-> i]

Near(n) == {k \in (n - Slack)..(n + Slack) : k >= 0}
MetricLens ==
    Near(0) \cup Near(BATCH_TOTAL - BATCH_PARAMS - BATCH_TAGS)
        \cup Near(BATCH_METRICS)
ParamLens == Near(0) \cup Near(BATCH_PARAMS)
TagLens == Near(0) \cup Near(BATCH_TAGS)

Fresh == op.name = "new"

\* One invocation on a Server just built.  A Server holds nothing but its
\* api_url, which no operation changes, so an invocation owes nothing to the
\* ones before it and a behaviour holds one.  The transport answers only
\* the requests that were issued, each with one response (a request issued
\* again is answered as before).
Invoke(name, args, resps, out) ==
    /\ op' = [name |-> name, args |-> args]
    /\ http' = out.http
    /\ response' = [i \in 1..Len(out.http) |->
                        IF i <= Len(resps) THEN resps[i] ELSE resps[Len(resps)]]
    /\ result' = out.result
    /\ UNCHANGED <<api_url, storage_buffer>>
    /\ UNCHANGED runVars

CreateExperiment ==
    /\ Fresh
    /\ \E name \in Names, resp \in Responses :
        Invoke("create_experiment", [name |-> name], <<resp>>,
               create_experiment(name, resp))

GetExperimentByName ==
    /\ Fresh
    /\ \E name \in Names, resp \in Responses :
        Invoke("get_experiment_by_name", [name |-> name], <<resp>>,
               get_experiment_by_name(name, resp))

\* the storage revision's get_experiment
StorageGetExperiment ==
    /\ Fresh
    /\ \E name \in Names, resp \in Responses :
        Invoke("storage_get_experiment", [name |-> name], <<resp>>,
               storage_get_experiment(name, resp))

AnyResponse == CHOOSE r \in Responses : TRUE

\* the storage revision's create_experiment; the transport answers a second
\* time only if a second request was issued
StorageCreateExperiment ==
    /\ Fresh
    /\ \E name \in Names, resp \in Responses :
        LET again == Len(storage_create_experiment(name, resp, AnyResponse).http) > 1
        IN  \E resp2 \in IF again THEN Responses ELSE {AnyResponse} :
                Invoke("storage_create_experiment", [name |-> name],
                       <<resp, resp2>>,
                       storage_create_experiment(name, resp, resp2))

\* the arguments a caller passes
ExperimentArgs == {"1", "2"}
ViewTypes == {"Active", "Deleted", "All"}
MetricKeys == {"loss"}
PageTokens == {None, Some("p1")}
TimeArgs == {1600000000}

ListExperiments ==
    /\ Fresh
    /\ \E view_type \in ViewTypes, resp \in Responses :
        Invoke("list_experiments", [view_type |-> view_type], <<resp>>,
               list_experiments(view_type, resp))

GetExperiment ==
    /\ Fresh
    /\ \E id \in ExperimentArgs, resp \in Responses :
        Invoke("get_experiment", [id |-> id], <<resp>>, get_experiment(id, resp))

DeleteExperiment ==
    /\ Fresh
    /\ \E id \in ExperimentArgs, resp \in Responses :
        Invoke("delete_experiment", [id |-> id], <<resp>>,
               delete_experiment(id, resp))

UpdateExperiment ==
    /\ Fresh
    /\ \E id \in ExperimentArgs, new_name \in {None, Some("bar")}, resp \in Responses :
        Invoke("update_experiment", [id |-> id, new_name |-> new_name], <<resp>>,
               update_experiment(id, new_name, resp))

CreateRun ==
    /\ Fresh
    /\ \E id \in ExperimentArgs, time \in TimeArgs, resp \in Responses :
        Invoke("create_run", [experiment |-> id, start_time |-> time, tags |-> <<>>],
               <<resp>>, create_run(id, time, <<>>, resp))

DeleteRun ==
    /\ Fresh
    /\ \E id \in RunIds, resp \in Responses :
        Invoke("delete_run", [id |-> id], <<resp>>, delete_run(id, resp))

GetRun ==
    /\ Fresh
    /\ \E id \in RunIds, resp \in Responses :
        Invoke("get_run", [id |-> id], <<resp>>, get_run(id, resp))

UpdateRun ==
    /\ Fresh
    /\ \E id \in RunIds, status \in {"Finished", "Failed"}, time \in TimeArgs,
          resp \in Responses :
        Invoke("update_run", [id |-> id, status |-> status, end_time |-> time],
               <<resp>>, update_run(id, status, time, resp))

SearchRuns ==
    /\ Fresh
    /\ \E id \in ExperimentArgs, page_token \in PageTokens, resp \in Responses :
        Invoke("search_runs",
               [experiment_ids |-> <<id>>, filter |-> "", run_view_type |-> "Active",
                max_results |-> 100, order_by |-> None, page_token |-> page_token],
               <<resp>>,
               search_runs(<<id>>, "", "Active", 100, None, page_token, resp))

ListRunInfos ==
    /\ Fresh
    /\ \E id \in ExperimentArgs, page_token \in PageTokens, resp \in Responses :
        Invoke("list_run_infos",
               [experiment |-> id, run_view_type |-> "Active", max_results |-> 100,
                order_by |-> None, page_token |-> page_token],
               <<resp>>,
               list_run_infos(id, "Active", 100, None, page_token, resp))

GetMetricHistory ==
    /\ Fresh
    /\ \E run \in RunIds, metric \in MetricKeys, resp \in Responses :
        Invoke("get_metric_history", [run |-> run, metric |-> metric], <<resp>>,
               get_metric_history(run, metric, resp))

RestLogParam ==
    /\ Fresh
    /\ \E run \in RunIds, resp \in Responses :
        Invoke("log_param", [run |-> run, key |-> "lr", value |-> "0.1"], <<resp>>,
               rest_log_param(run, "lr", "0.1", resp))

RestLogMetric ==
    /\ Fresh
    /\ \E run \in RunIds, step \in {0, 1}, resp \in Responses :
        Invoke("log_metric",
               [run |-> run, key |-> "loss", value |-> 1,
                timestamp |-> 1600000000, step |-> step],
               <<resp>>,
               rest_log_metric(run, "loss", 1, 1600000000, step, resp))

\* the transport is reached, and answers, only past the validation
LogBatch ==
    /\ Fresh
    /\ \E run \in {"r1"}, m \in MetricLens, p \in ParamLens, t \in TagLens :
        LET args == [run |-> run, metrics |-> m, params |-> p, tags |-> t]
            reached == log_batch(run, Items(m), Items(p), Items(t),
                                 AnyResponse).http # <<>>
        IN  \E resp \in IF reached THEN Responses ELSE {AnyResponse} :
                Invoke("log_batch", args, <<resp>>,
                       log_batch(run, Items(m), Items(p), Items(t), resp))

-----------------------------------------------------------------------------
(* storage/server.rs: a RunStorage buffering metrics and flushing them      *)
(* through Server::log_batch when the run is terminated.                    *)

\* how many metrics a run buffers and how many requests of a flush are
\* followed
MaxBuffered == 1001
MaxRequests == 3

\* what the transport answers to a log-batch request
FlushResponses == {r \in Responses : r.body = Obj(<<>>)}

\* RunStorage::log_metric: self.buffer.push(..)
StorageLogMetric ==
    /\ op.name \in {"new", "storage_log_metric"}
    /\ Len(storage_buffer) < MaxBuffered
    /\ storage_buffer' = Append(storage_buffer, Len(storage_buffer) + 1)
    /\ op' = [name |-> "storage_log_metric", args |-> [run |-> "r1"]]
    /\ UNCHANGED <<api_url, http, response, result>>
    /\ UNCHANGED runVars

\* RunStorage::terminate entering self.server.log_batch(run, &mut self.buffer)
StorageLogBatch ==
    /\ op.name \in {"new", "storage_log_metric"}
    /\ op' = [name |-> "storage_log_batch",
              args |-> [run |-> "r1", metrics |-> Len(storage_buffer)]]
    /\ UNCHANGED <<api_url, http, response, result, storage_buffer>>
    /\ UNCHANGED runVars

\* the body of while !metrics.is_empty(): a request posted, its answer
\* validated; nothing is taken out of metrics
StorageLogBatchSend ==
    /\ op.name = "storage_log_batch" /\ result = NoResult
    /\ storage_buffer # <<>>
    /\ Len(http) < MaxRequests
    /\ \E resp \in FlushResponses :
        /\ http' = Append(http,
                        storage_log_batch_request(op.args.run, storage_buffer))
        /\ response' = Append(response, resp)
        /\ result' = IF validate_response(resp).ok
                     THEN result
                     ELSE validate_response(resp)
    /\ UNCHANGED <<api_url, op, storage_buffer>>
    /\ UNCHANGED runVars

\* the loop left with metrics empty: Ok(())
StorageLogBatchReturn ==
    /\ op.name = "storage_log_batch" /\ result = NoResult
    /\ storage_buffer = <<>>
    /\ result' = Ok(Unit)
    /\ UNCHANGED <<api_url, op, http, response, storage_buffer>>
    /\ UNCHANGED runVars

-----------------------------------------------------------------------------
(* The codecs of api.rs and api/run.rs applied on their own: a call sends   *)
(* nothing and returns what the codec gives.                                *)

Returns(value) == [http |-> <<>>, result |-> value]

\* the i64 values encoded: small ones of either sign, zero, and timestamps
MaxTime == 50
TimeValues ==
    ((0 - MaxTime)..MaxTime) \cup {1600000000, 1600000001, 0 - 1600000000}

\* the status tokens decoded: the five of RunStatus and other spellings
StatusTokens ==
    {"RUNNING", "SCHEDULED", "FINISHED", "FAILED", "KILLED",
     "running", "Running", "Finished", "DONE", ""}

RunStatusEncode ==
    /\ Fresh
    /\ \E status \in DOMAIN RunStatusTokens :
        Invoke("RunStatus::serialize", [status |-> status], <<>>,
               Returns(Ok(RunStatus_serialize(status))))

RunStatusDecode ==
    /\ Fresh
    /\ \E token \in StatusTokens, escaped \in BOOLEAN :
        Invoke("RunStatus::deserialize", [token |-> Str(token, escaped)], <<>>,
               Returns(RunStatus_deserialize(Obj([status |-> Str(token, escaped)]),
                                             "status")))

\* start_time through str_int: serialize, then deserialize what was written
StrInt ==
    /\ Fresh
    /\ \E int \in TimeValues :
        Invoke("str_int", [int |-> int], <<>>,
               Returns(str_int_deserialize(
                           Obj([start_time |-> str_int_serialize(int)]),
                           "start_time")))

\* end_time through opt_str_int; a writer may also leave a None field out
OptStrInt ==
    /\ Fresh
    /\ \E int \in {None} \cup {Some(t) : t \in TimeValues}, omitted \in BOOLEAN :
        /\ omitted => int = None
        /\ Invoke("opt_str_int", [int |-> int, omitted |-> omitted], <<>>,
                  Returns(opt_str_int_deserialize(
                              IF omitted
                              THEN Obj(<<>>)
                              ELSE Obj([end_time |-> opt_str_int_serialize(int)]),
                              "end_time")))

-----------------------------------------------------------------------------
(* tracking/run.rs: TrackingRun.  A Param, a RunTag and a Metric are known  *)
(* by the ordinal of the log_param, log_tag or log_metric call that built   *)
(* them: the ordinal stands for the key, the value, the step and, for a     *)
(* metric, the timestamp taken by that call.                                *)

\* what timestamp() can return when the run is built, and how much later
\* submit can read it again
StartTimes == {1600000000}
Later == {0, 1}
ExperimentIds == {"1"}

\* TrackingRun::new
TrackingRun_new(now) ==
    /\ start_time = now
    /\ param_buffer = <<>>
    /\ tag_buffer = <<>>
    /\ metric_buffer = <<  <<>>  >>

Last(seq) == seq[Len(seq)]

\* log_metric opening a new chunk only past the limit, which a push never reaches
log_metric_past_limit(buffer, metric) ==
    LET opened == IF Len(Last(buffer)) > BATCH_METRICS
                  THEN Append(buffer, <<>>)
                  ELSE buffer
    IN  [opened EXCEPT ![Len(opened)] = Append(@, metric)]

\* log_metric starting over in the last chunk once it is full
log_metric_replaces_last(buffer, metric) ==
    IF Len(Last(buffer)) = BATCH_METRICS
    THEN [buffer EXCEPT ![Len(buffer)] = <<metric>>]
    ELSE [buffer EXCEPT ![Len(buffer)] = Append(@, metric)]

\* log_metric opening a new chunk one entry early
log_metric_early_chunk(buffer, metric) ==
    LET opened == IF Len(Last(buffer)) = BATCH_METRICS - 1
                  THEN Append(buffer, <<>>)
                  ELSE buffer
    IN  [opened EXCEPT ![Len(opened)] = Append(@, metric)]

\* log_metric opening the next chunk as soon as the last one is full
log_metric_eager_chunk(buffer, metric) ==
    IF Len(Last(buffer)) = BATCH_METRICS - 1
    THEN Append([buffer EXCEPT ![Len(buffer)] = Append(@, metric)], <<>>)
    ELSE [buffer EXCEPT ![Len(buffer)] = Append(@, metric)]

\* TrackingRun::log_metric: the metric buffer after the call
log_metric(buffer, metric) ==
    LET opened == IF Len(Last(buffer)) = BATCH_METRICS
                  THEN Append(buffer, <<>>)
                  ELSE buffer
    IN  [opened EXCEPT ![Len(opened)] = Append(@, metric)]

\* a call on the Client and whether it returned Ok
CreateRunCall(experiment, time, tags, answer) ==
    [op |-> "create_run", experiment |-> experiment, start_time |-> time,
     tags |-> tags, ok |-> answer.ok, answer |-> answer]
LogBatchCall(run, metrics, params, tags, ok) ==
    [op |-> "log_batch", run |-> run, metrics |-> metrics, params |-> params,
     tags |-> tags, ok |-> ok]
UpdateRunCall(run, status, end_time, answer) ==
    [op |-> "update_run", run |-> run, status |-> status, end_time |-> end_time,
     ok |-> answer.ok, answer |-> answer]

\* submit finishing the run before the metric chunks are sent
submit_finishes_first(experiment, a) ==
    LET create == CreateRunCall(experiment, start_time, <<>>, a.create_run)
        run == a.create_run.value
        id == run.info.run_id
        first == LogBatchCall(id, <<>>, param_buffer, tag_buffer, a.failing_batch # 1)
        update == UpdateRunCall(id, "Finished", a.now, a.update_run)
        chunks ==
            [i \in 1..Len(metric_buffer) |->
                LogBatchCall(id, metric_buffer[i], <<>>, <<>>, TRUE)]
    IN  IF ~a.create_run.ok
        THEN [calls |-> <<create>>, ret |-> Err(a.create_run.err)]
        ELSE IF a.failing_batch = 1
        THEN [calls |-> <<create, first>>, ret |-> Err(Anyhow("log_batch", 1))]
        ELSE IF ~a.update_run.ok
        THEN [calls |-> <<create, first, update>>, ret |-> Err(a.update_run.err)]
        ELSE [calls |-> <<create, first, update>> \o chunks,
              ret |-> Ok([info |-> a.update_run.value, data |-> run.data])]

\* submit going on after a log_batch that failed
submit_ignores_batch_errors(experiment, a) ==
    LET create == CreateRunCall(experiment, start_time, <<>>, a.create_run)
        run == a.create_run.value
        id == run.info.run_id
        first == LogBatchCall(id, <<>>, param_buffer, tag_buffer, a.failing_batch # 1)
        chunks ==
            [i \in 1..Len(metric_buffer) |->
                LogBatchCall(id, metric_buffer[i], <<>>, <<>>,
                             a.failing_batch # i + 1)]
        update == UpdateRunCall(id, "Finished", a.now, a.update_run)
    IN  IF ~a.create_run.ok
        THEN [calls |-> <<create>>, ret |-> Err(a.create_run.err)]
        ELSE IF ~a.update_run.ok
        THEN [calls |-> <<create, first>> \o chunks \o <<update>>,
              ret |-> Err(a.update_run.err)]
        ELSE [calls |-> <<create, first>> \o chunks \o <<update>>,
              ret |-> Ok([info |-> a.update_run.value, data |-> run.data])]

\* submit returning the Run as create_run gave it
submit_keeps_created_info(experiment, a) ==
    LET create == CreateRunCall(experiment, start_time, <<>>, a.create_run)
        run == a.create_run.value
        id == run.info.run_id
        batches ==
            <<[metrics |-> <<>>, params |-> param_buffer, tags |-> tag_buffer]>>
                \o [i \in 1..Len(metric_buffer) |->
                        [metrics |-> metric_buffer[i], params |-> <<>>,
                         tags |-> <<>>]]
        stop == IF a.failing_batch \in 1..Len(batches) THEN a.failing_batch ELSE 0
        logged ==
            [i \in 1..(IF stop = 0 THEN Len(batches) ELSE stop) |->
                LogBatchCall(id, batches[i].metrics, batches[i].params,
                             batches[i].tags, i # stop)]
        update == UpdateRunCall(id, "Finished", a.now, a.update_run)
    IN  IF ~a.create_run.ok
        THEN [calls |-> <<create>>, ret |-> Err(a.create_run.err)]
        ELSE IF stop # 0
        THEN [calls |-> <<create>> \o logged,
              ret |-> Err(Anyhow("log_batch", stop))]
        ELSE IF ~a.update_run.ok
        THEN [calls |-> <<create>> \o logged \o <<update>>,
              ret |-> Err(a.update_run.err)]
        ELSE [calls |-> <<create>> \o logged \o <<update>>, ret |-> Ok(run)]

\* TrackingRun::submit against a Client that answers create_run with
\* a.create_run, lets the a.failing_batch-th log_batch fail (0: none),
\* answers update_run with a.update_run, at a time a.now: the calls made on
\* the Client, in order, and the value returned
submit(experiment, a) ==
    LET create == CreateRunCall(experiment, start_time, <<>>, a.create_run)
        run == a.create_run.value
        id == run.info.run_id
        batches ==
            <<[metrics |-> <<>>, params |-> param_buffer, tags |-> tag_buffer]>>
                \o [i \in 1..Len(metric_buffer) |->
                        [metrics |-> metric_buffer[i], params |-> <<>>,
                         tags |-> <<>>]]
        stop == IF a.failing_batch \in 1..Len(batches) THEN a.failing_batch ELSE 0
        logged ==
            [i \in 1..(IF stop = 0 THEN Len(batches) ELSE stop) |->
                LogBatchCall(id, batches[i].metrics, batches[i].params,
                             batches[i].tags, i # stop)]
        update == UpdateRunCall(id, "Finished", a.now, a.update_run)
    IN  IF ~a.create_run.ok
        THEN [calls |-> <<create>>, ret |-> Err(a.create_run.err)]
        ELSE IF stop # 0
        THEN [calls |-> <<create>> \o logged,
              ret |-> Err(Anyhow("log_batch", stop))]
        ELSE IF ~a.update_run.ok
        THEN [calls |-> <<create>> \o logged \o <<update>>,
              ret |-> Err(a.update_run.err)]
        ELSE [calls |-> <<create>> \o logged \o <<update>>,
              ret |-> Ok([info |-> a.update_run.value, data |-> run.data])]

-----------------------------------------------------------------------------
(* A TrackingRun driven by a caller, submitted to a Client.                 *)

\* how many log_param, log_tag and log_metric calls a behaviour holds: a
\* caller logs many metrics, or fills the param buffer and calls once more,
\* or does so with the tag buffer
MaxParamCalls == 1
MaxTagCalls == 1
MaxMetricCalls == 2500
FewMetricCalls == 1
ManyParamCalls == BATCH_PARAMS + 1
ManyTagCalls == BATCH_TAGS + 1
Workload(p, t, m) ==
    \/ p <= MaxParamCalls /\ t <= MaxTagCalls /\ m <= MaxMetricCalls
    \/ p <= ManyParamCalls /\ t <= MaxTagCalls /\ m <= FewMetricCalls
    \/ p <= MaxParamCalls /\ t <= ManyTagCalls /\ m <= FewMetricCalls

RunInfo(id, status) == [run_id |-> id, status |-> status]
\* what a Client can answer
CreateRunAnswers ==
    {Err(Anyhow("create_run", None))}
        \cup {Ok([info |-> RunInfo(id, "RUNNING"), data |-> [created |-> id]]) :
                id \in RunIds}
UpdateRunAnswers ==
    {Err(Storage(Anyhow("update_run", None)))}
        \cup {Ok(RunInfo(id, "FINISHED")) : id \in {"r1"}}

\* log_param whose assertion lets a full buffer through
LogParam_lax ==
    /\ pc = "open"
    /\ Workload(Len(param_buffer) + 1, Len(tag_buffer), n_metrics)
    /\ IF Len(param_buffer) <= BATCH_PARAMS
       THEN /\ param_buffer' = Append(param_buffer, Len(param_buffer) + 1)
            /\ pc' = pc
       ELSE /\ pc' = "panicked"
            /\ UNCHANGED param_buffer
    /\ UNCHANGED <<start_time, tag_buffer, metric_buffer, calls, ret, n_metrics>>
    /\ UNCHANGED restVars

\* TrackingRun::log_param; the assertion panics on a full buffer
LogParam ==
    /\ pc = "open"
    /\ Workload(Len(param_buffer) + 1, Len(tag_buffer), n_metrics)
    /\ IF Len(param_buffer) < BATCH_PARAMS
       THEN /\ param_buffer' = Append(param_buffer, Len(param_buffer) + 1)
            /\ pc' = pc
       ELSE /\ pc' = "panicked"
            /\ UNCHANGED param_buffer
    /\ UNCHANGED <<start_time, tag_buffer, metric_buffer, calls, ret, n_metrics>>
    /\ UNCHANGED restVars

\* log_tag whose assertion lets a full buffer through
LogTag_lax ==
    /\ pc = "open"
    /\ Workload(Len(param_buffer), Len(tag_buffer) + 1, n_metrics)
    /\ IF Len(tag_buffer) <= BATCH_TAGS
       THEN /\ tag_buffer' = Append(tag_buffer, Len(tag_buffer) + 1)
            /\ pc' = pc
       ELSE /\ pc' = "panicked"
            /\ UNCHANGED tag_buffer
    /\ UNCHANGED <<start_time, param_buffer, metric_buffer, calls, ret, n_metrics>>
    /\ UNCHANGED restVars

\* log_tag handing the tag to the Client at once
LogTag_sends ==
    /\ pc = "open"
    /\ Workload(Len(param_buffer), Len(tag_buffer) + 1, n_metrics)
    /\ IF Len(tag_buffer) < BATCH_TAGS
       THEN /\ tag_buffer' = Append(tag_buffer, Len(tag_buffer) + 1)
            /\ calls' = Append(calls, LogBatchCall("r1", <<>>, <<>>,
                                                   <<Len(tag_buffer) + 1>>, TRUE))
            /\ pc' = pc
       ELSE /\ pc' = "panicked"
            /\ UNCHANGED <<tag_buffer, calls>>
    /\ UNCHANGED <<start_time, param_buffer, metric_buffer, ret, n_metrics>>
    /\ UNCHANGED restVars

\* TrackingRun::log_tag; the assertion panics on a full buffer
LogTag ==
    /\ pc = "open"
    /\ Workload(Len(param_buffer), Len(tag_buffer) + 1, n_metrics)
    /\ IF Len(tag_buffer) < BATCH_TAGS
       THEN /\ tag_buffer' = Append(tag_buffer, Len(tag_buffer) + 1)
            /\ pc' = pc
       ELSE /\ pc' = "panicked"
            /\ UNCHANGED tag_buffer
    /\ UNCHANGED <<start_time, param_buffer, metric_buffer, calls, ret, n_metrics>>
    /\ UNCHANGED restVars

\* TrackingRun::log_metric
LogMetric ==
    /\ pc = "open"
    /\ Workload(Len(param_buffer), Len(tag_buffer), n_metrics + 1)
    /\ n_metrics' = n_metrics + 1
    /\ metric_buffer' = log_metric(metric_buffer, n_metrics + 1)
    /\ UNCHANGED <<start_time, param_buffer, tag_buffer, pc, calls, ret>>
    /\ UNCHANGED restVars

Submit ==
    /\ pc = "open"
    /\ \E experiment \in ExperimentIds, create \in CreateRunAnswers,
          failing \in 0..(Len(metric_buffer) + 1), update \in UpdateRunAnswers,
          now \in {start_time + d : d \in Later} :
            LET out == submit(experiment,
                              [create_run |-> create, failing_batch |-> failing,
                               update_run |-> update, now |-> now])
            IN  /\ op' = [name |-> "submit", args |-> [experiment |-> experiment]]
                /\ calls' = out.calls
                /\ ret' = out.ret
                /\ pc' = "submitted"
    /\ UNCHANGED <<start_time, param_buffer, tag_buffer, metric_buffer, n_metrics>>
    /\ UNCHANGED <<api_url, http, response, result, storage_buffer>>

Init ==
    /\ api_url \in BaseUrls
    /\ op = [name |-> "new", args |-> None]
    /\ http = <<>>
    /\ response = <<>>
    /\ result = NoResult
    /\ storage_buffer = <<>>
    /\ \E now \in StartTimes : TrackingRun_new(now)
    /\ pc = "open"
    /\ calls = <<>>
    /\ ret = NoResult
    /\ n_metrics = 0

\* the error handling of the two revisions of the client
Next ==
    \/ CreateExperiment
    \/ GetExperimentByName
    \/ StorageCreateExperiment
    \/ StorageGetExperiment

Spec == Init /\ [][Next]_vars

\* every operation of the REST client, and the storage revision's two
NextClient ==
    \/ CreateExperiment
    \/ ListExperiments
    \/ GetExperiment
    \/ GetExperimentByName
    \/ DeleteExperiment
    \/ UpdateExperiment
    \/ CreateRun
    \/ DeleteRun
    \/ GetRun
    \/ UpdateRun
    \/ SearchRuns
    \/ ListRunInfos
    \/ GetMetricHistory
    \/ RestLogParam
    \/ RestLogMetric
    \/ LogBatch
    \/ StorageCreateExperiment
    \/ StorageGetExperiment
SpecClient == Init /\ [][NextClient]_vars

\* the codecs, and the operations that send or read a RunInfo
NextCodec ==
    \/ RunStatusEncode
    \/ RunStatusDecode
    \/ StrInt
    \/ OptStrInt
    \/ CreateRun
    \/ GetRun
    \/ UpdateRun
SpecCodec == Init /\ [][NextCodec]_vars

\* the storage revision's RunStorage
NextStorage ==
    \/ StorageLogMetric
    \/ StorageLogBatch
    \/ StorageLogBatchSend
    \/ StorageLogBatchReturn
SpecStorage == Init /\ [][NextStorage]_vars

\* log_batch on the REST client
NextBatch == LogBatch

SpecBatch == Init /\ [][NextBatch]_vars

\* a TrackingRun filled and submitted
NextRun ==
    \/ LogParam
    \/ LogTag
    \/ LogMetric
    \/ Submit

SpecRun == Init /\ [][NextRun]_vars

-----------------------------------------------------------------------------
(* Properties of log_batch on the REST client (SpecBatch).                  *)

IsLogBatch == op.name = "log_batch"
LimitKinds == {"ToManyItems", "ToManyMetrics", "ToManyParams", "ToManyTags"}
WithinLimits(a) ==
    /\ a.metrics <= 1000
    /\ a.params <= 100
    /\ a.tags <= 100
    /\ a.metrics + a.params + a.tags <= 1000

\* C1: a log_batch whose metrics, params or tags exceed 1000, 100, 100 or
\* whose total exceeds 1000 returns a BatchError limit variant and issues no
\* HTTP request; 1001 metrics alone give the too-many-metrics kind.
C1_RejectedBeforeTransport ==
    IsLogBatch /\ ~WithinLimits(op.args) =>
        /\ ~result.ok
        /\ result.err.kind \in LimitKinds
        /\ http = <<>>
        /\ response = <<>>
        /\ (op.args.metrics = 1001 /\ op.args.params = 0 /\ op.args.tags = 0
                => result.err.kind = "ToManyMetrics")

C1_Witness ==
    /\ IsLogBatch
    /\ op.args = [run |-> "r1", metrics |-> 1001, params |-> 0, tags |-> 0]
    /\ result = Err(ToManyMetrics(1001))
    /\ http = <<>>

\* C2: the limits are checked in the order metrics, params, tags, total; the
\* error is the one of the first limit violated in that order and carries
\* the length of that collection (the total for the last check).
C2_FirstViolatedLimit ==
    IsLogBatch =>
        LET m == op.args.metrics
            p == op.args.params
            t == op.args.tags
        IN  /\ m > 1000 => result = Err(ToManyMetrics(m))
            /\ m <= 1000 /\ p > 100 => result = Err(ToManyParams(p))
            /\ m <= 1000 /\ p <= 100 /\ t > 100 => result = Err(ToManyTags(t))
            /\ m <= 1000 /\ p <= 100 /\ t <= 100 /\ m + p + t > 1000
                    => result = Err(ToManyItems(m + p + t))

C2_Witness ==
    /\ IsLogBatch
    /\ op.args.metrics = 1001 /\ op.args.params = 101 /\ op.args.tags = 101
    /\ result = Err(ToManyMetrics(1001))

\* C3: with no collection over its own cap but more than 1000 items in all
\* (999 metrics, 1 param, 1 tag), log_batch fails with the too-many-items
\* error carrying the combined total.
C3_TooManyItems ==
    /\ IsLogBatch /\ op.args.metrics = 999 /\ op.args.params = 1 /\ op.args.tags = 1
            => result = Err(ToManyItems(1001))
    /\ IsLogBatch /\ op.args.metrics <= 1000 /\ op.args.params <= 100
                  /\ op.args.tags <= 100
                  /\ op.args.metrics + op.args.params + op.args.tags > 1000
            => /\ ~result.ok
               /\ result.err.kind = "ToManyItems"
               /\ result.err.n = op.args.metrics + op.args.params + op.args.tags

C3_Witness ==
    /\ IsLogBatch
    /\ op.args.metrics = 999 /\ op.args.params = 1 /\ op.args.tags = 1
    /\ result = Err(ToManyItems(1001))

\* C4: log_batch issues exactly one POST to the log-batch endpoint if and only
\* if every collection and the total are within the limits; the limits are
\* inclusive, so 1000 metrics alone, or 100 params with 100 tags, are sent and
\* draw no limit error.
C4_SentIffWithinLimits ==
    IsLogBatch =>
        /\ WithinLimits(op.args) <=> Len(http) = 1
        /\ Len(http) <= 1
        /\ WithinLimits(op.args) =>
              /\ http[1].method = "Post"
              /\ http[1].url = api_url \o "/2.0/mlflow/runs/log-batch"
              /\ http[1].body.run_id = op.args.run
              /\ Len(http[1].body.metrics) = op.args.metrics
              /\ Len(http[1].body.params) = op.args.params
              /\ Len(http[1].body.tags) = op.args.tags
              /\ (result.ok \/ result.err.kind = "Storage")
        /\ (op.args.metrics = 1000 /\ op.args.params = 0 /\ op.args.tags = 0)
              \/ (op.args.metrics = 0 /\ op.args.params = 100 /\ op.args.tags = 100)
              => Len(http) = 1 /\ (result.ok \/ result.err.kind \notin LimitKinds)

C4_Witness ==
    /\ IsLogBatch
    /\ op.args.metrics = 1000 /\ op.args.params = 0 /\ op.args.tags = 0
    /\ Len(http) = 1
    /\ result.ok

-----------------------------------------------------------------------------
(* Properties of the error handling (Spec).                                 *)

RestOps == {"create_experiment", "get_experiment_by_name"}
Answer == response[1]

\* the body is the JSON text of {"error_code": <string>, "message": <string>}
IsEnvelope(body) ==
    /\ body.type = "object"
    /\ {"error_code", "message"} \subseteq DOMAIN body.fields
    /\ body.fields["error_code"].type = "string"
    /\ body.fields["message"].type = "string"

\* the transport answered with an error status and the envelope carrying code
AnsweredWithCode(code) ==
    /\ IsError(Answer)
    /\ Answer.readable
    /\ IsEnvelope(Answer.body)
    /\ Answer.body.fields["error_code"].text = code

\* the variant the claims give for an error_code string
VariantOf(s) ==
    IF s = "RESOURCE_ALREADY_EXISTS" THEN [code |-> "ResourceAlreadyExists"]
    ELSE IF s = "RESOURCE_DOES_NOT_EXIST" THEN [code |-> "ResourceDoesNotExist"]
    ELSE IF s = "INVALID_PARAMETER_VALUE" THEN [code |-> "InvalidParameterValue"]
    ELSE [code |-> "Unknown", value |-> s]

\* C5: create_experiment(name), answered with an HTTP error whose body is the
\* envelope with error_code RESOURCE_ALREADY_EXISTS, returns AlreadyExists
\* carrying name; every other transport error gives the Storage variant.
C5_AlreadyExists ==
    op.name \in {"create_experiment", "storage_create_experiment"}
            /\ IsError(Answer) =>
        IF AnsweredWithCode("RESOURCE_ALREADY_EXISTS")
        THEN result = Err(AlreadyExists(op.args.name))
        ELSE ~result.ok /\ result.err.kind = "Storage"

\* C6: get_experiment_by_name(name), answered with an HTTP error whose body is
\* the envelope with error_code RESOURCE_DOES_NOT_EXIST, returns DoesNotExist
\* carrying name; every other transport error gives the Storage variant.
C6_DoesNotExist ==
    op.name \in {"get_experiment_by_name", "storage_get_experiment"}
            /\ IsError(Answer) =>
        IF AnsweredWithCode("RESOURCE_DOES_NOT_EXIST")
        THEN result = Err(DoesNotExist(op.args.name))
        ELSE ~result.ok /\ result.err.kind = "Storage"

\* C7: every error_code string received from the server is mapped: the three
\* recognized strings to their variants, any other string s to the
\* unknown-code variant carrying s unchanged; none is dropped.
C7_CodesPreserved ==
    op.name \in RestOps /\ IsError(Answer) /\ Answer.readable
            /\ IsEnvelope(Answer.body) /\ ~result.ok
            /\ result.err.kind = "Storage" =>
        /\ result.err.cause.variant = "Known"
        /\ result.err.cause.code = VariantOf(Answer.body.fields["error_code"].text)

\* C8: an error-status response whose body parses as the envelope gives the
\* Known variant with the response's status, the code and the message; any
\* other gives the Unknown variant with the status and the raw body; none is
\* taken for a success.
C8_ErrorResponses ==
    op.name \in RestOps /\ IsError(Answer) =>
        /\ ~result.ok
        /\ result.err.kind = "Storage" =>
              IF IsEnvelope(Answer.body)
              THEN result.err.cause =
                      Known(Answer.status,
                            VariantOf(Answer.body.fields["error_code"].text),
                            Answer.body.fields["message"].text)
              ELSE result.err.cause = Unknown(Answer.status, Answer.body)

-----------------------------------------------------------------------------
(* Properties of TrackingRun::submit (SpecRun).                             *)

Submitted == pc = "submitted"
AllSucceeded == \A i \in 1..Len(calls) : calls[i].ok
CallsOf(name) == SelectSeq(calls, LAMBDA c : c.op = name)
MetricBatches == SelectSeq(calls, LAMBDA c : c.op = "log_batch" /\ c.metrics # <<>>)
OtherBatches == SelectSeq(calls, LAMBDA c : c.op = "log_batch" /\ c.metrics = <<>>)
Ceil1000(n) == (n + 999) \div 1000

\* C9: after N >= 1 log_metric calls, a submit whose client calls all succeed
\* makes exactly one create_run, exactly one log_batch with the params and
\* tags and no metrics, exactly ceil(N/1000) log_batch calls with metrics,
\* each of 1000 metrics but for the last, which has the rest (2500 metrics:
\* 1000, 1000, 500), and exactly one update_run.
C9_SubmitCallCounts ==
    Submitted /\ AllSucceeded /\ n_metrics >= 1 =>
        /\ Len(CallsOf("create_run")) = 1
        /\ Len(CallsOf("update_run")) = 1
        /\ Len(CallsOf("log_batch")) = Len(MetricBatches) + 1
        /\ Len(OtherBatches) = 1
        /\ OtherBatches[1].params = param_buffer
        /\ OtherBatches[1].tags = tag_buffer
        /\ Len(MetricBatches) = Ceil1000(n_metrics)
        /\ \A i \in 1..Len(MetricBatches) :
              /\ MetricBatches[i].params = <<>>
              /\ MetricBatches[i].tags = <<>>
              /\ Len(MetricBatches[i].metrics) =
                    IF i < Ceil1000(n_metrics)
                    THEN 1000
                    ELSE n_metrics - 1000 * (Ceil1000(n_metrics) - 1)
        /\ (n_metrics = 2500 =>
              /\ Len(MetricBatches) = 3
              /\ Len(MetricBatches[1].metrics) = 1000
              /\ Len(MetricBatches[2].metrics) = 1000
              /\ Len(MetricBatches[3].metrics) = 500)

C9_Witness ==
    /\ Submitted /\ AllSucceeded /\ ret.ok
    /\ n_metrics = 2500
    /\ Len(calls) = 6
    /\ Len(calls[5].metrics) = 500

\* C10: submit calls create_run(experiment, the start_time taken at
\* construction, no tags) first, then the one log_batch with the params and
\* tags, then one log_batch per metric chunk in the order the chunks were
\* created, then update_run with Finished, last; the log_batch and update_run
\* calls carry the run id create_run returned, and update_run is made only
\* once every chunk has been sent.
C10_SubmitCallOrder ==
    Submitted =>
        LET n == Len(calls)
            chunks == Len(metric_buffer)
            id == calls[1].answer.value.info.run_id
        IN  /\ n >= 1
            /\ calls[1].op = "create_run"
            /\ calls[1].experiment = op.args.experiment
            /\ calls[1].start_time = start_time
            /\ calls[1].tags = <<>>
            /\ n <= chunks + 3
            /\ n >= 2 =>
                  /\ calls[1].ok
                  /\ calls[2].op = "log_batch"
                  /\ calls[2].metrics = <<>>
                  /\ calls[2].params = param_buffer
                  /\ calls[2].tags = tag_buffer
            /\ \A i \in 3..n :
                  /\ calls[i - 1].ok
                  /\ i <= chunks + 2 =>
                        /\ calls[i].op = "log_batch"
                        /\ calls[i].metrics = metric_buffer[i - 2]
                        /\ calls[i].params = <<>>
                        /\ calls[i].tags = <<>>
                  /\ i = chunks + 3 =>
                        /\ calls[i].op = "update_run"
                        /\ calls[i].status = "Finished"
            /\ \A i \in 2..n : calls[i].run = id
            /\ AllSucceeded => n = chunks + 3

C10_Witness ==
    /\ Submitted /\ AllSucceeded
    /\ Len(metric_buffer) = 3
    /\ Len(calls) = 6
    /\ calls[1].answer.value.info.run_id = "r2"
    /\ calls[5].metrics = metric_buffer[3]
    /\ calls[6].op = "update_run"
    /\ calls[6].run = "r2"

\* C11: when a client call made by submit fails, it is the last call submit
\* makes and submit returns the error of that step; update_run is not called
\* after an earlier failure, and no other kind of call (a delete, a rollback)
\* is ever made.
C11_AbortOnFailure ==
    Submitted =>
        LET n == Len(calls)
        IN  /\ \A i \in 1..n :
                  /\ calls[i].op \in {"create_run", "log_batch", "update_run"}
                  /\ ~calls[i].ok =>
                        /\ i = n
                        /\ ~ret.ok
                        /\ ret.err = IF calls[i].op = "log_batch"
                                     THEN Anyhow("log_batch", i - 1)
                                     ELSE calls[i].answer.err
                        /\ calls[i].op # "update_run" => CallsOf("update_run") = <<>>
            /\ ~ret.ok => ~calls[n].ok

C11_Witness ==
    /\ Submitted
    /\ Len(metric_buffer) = 3
    /\ Len(calls) = 4
    /\ calls[4].op = "log_batch" /\ ~calls[4].ok
    /\ calls[4].metrics = metric_buffer[2]
    /\ ret = Err(Anyhow("log_batch", 3))

RECURSIVE Flatten(_)
Flatten(chunks) ==
    IF chunks = <<>> THEN <<>>
    ELSE Flatten(SubSeq(chunks, 1, Len(chunks) - 1)) \o Last(chunks)

\* C12: the metric chunks, concatenated in chunk order, are the logged
\* metrics in call order; on a successful submit the metrics of the metric
\* log_batch calls, concatenated in call order, are that same sequence, and
\* the combined call carries the param and tag buffers in insertion order.
C12_NothingLost ==
    /\ Flatten(metric_buffer) = Items(n_metrics)
    /\ param_buffer = Items(Len(param_buffer))
    /\ tag_buffer = Items(Len(tag_buffer))
    /\ Submitted /\ ret.ok =>
          /\ Flatten([i \in 1..Len(MetricBatches) |-> MetricBatches[i].metrics])
                = Items(n_metrics)
          /\ OtherBatches[1].params = param_buffer
          /\ OtherBatches[1].tags = tag_buffer

C12_Witness ==
    /\ Submitted /\ ret.ok
    /\ n_metrics = 2500
    /\ Len(MetricBatches) = 3
    /\ MetricBatches[3].metrics[500] = 2500
    /\ MetricBatches[2].metrics[1] = 1001
    /\ OtherBatches[1].params = <<1>>

\* C13: when every step of submit succeeds, the Run returned has the data of
\* the Run create_run returned and the RunInfo update_run returned, not the
\* info create_run returned.
C13_ReturnedRun ==
    Submitted /\ AllSucceeded =>
        /\ ret.ok
        /\ ret.value.data = calls[1].answer.value.data
        /\ ret.value.info = calls[Len(calls)].answer.value
        /\ calls[Len(calls)].op = "update_run"
        /\ ret.value.info # calls[1].answer.value.info

C13_Witness ==
    /\ Submitted /\ AllSucceeded
    /\ calls[1].answer.value.info = RunInfo("r2", "RUNNING")
    /\ ret = Ok([info |-> RunInfo("r1", "FINISHED"), data |-> [created |-> "r2"]])

\* C14: every metric chunk holds at most 1000 metrics and every chunk but the
\* last exactly 1000; a log_metric on a run whose last chunk holds 1000
\* appends a new chunk holding only the new metric.
C14_ChunksCapped ==
    /\ [](/\ Len(metric_buffer) >= 1
          /\ \A i \in 1..Len(metric_buffer) :
                /\ Len(metric_buffer[i]) <= 1000
                /\ i < Len(metric_buffer) => Len(metric_buffer[i]) = 1000)
    /\ [][n_metrics' # n_metrics /\ Len(Last(metric_buffer)) = 1000 =>
              metric_buffer' = Append(metric_buffer, <<n_metrics'>>)]_vars

C14_Witness ==
    /\ n_metrics = 2001
    /\ Len(metric_buffer) = 3
    /\ Len(metric_buffer[1]) = 1000 /\ Len(metric_buffer[2]) = 1000
    /\ metric_buffer[3] = <<2001>>

\* C15: log_param appends one param to a buffer of fewer than 100 and fails
\* its assertion, leaving the buffer at 100, on a buffer of 100; log_tag does
\* the same with the tag buffer.  The buffers never hold more than 100: the
\* 100th call succeeds, the 101st fails.
C15_BuffersCapped ==
    /\ [](/\ Len(param_buffer) <= 100
          /\ Len(tag_buffer) <= 100
          /\ pc = "panicked" => Len(param_buffer) = 100 \/ Len(tag_buffer) = 100)
    /\ [][/\ param_buffer' # param_buffer =>
                /\ Len(param_buffer) < 100
                /\ Len(param_buffer') = Len(param_buffer) + 1
                /\ SubSeq(param_buffer', 1, Len(param_buffer)) = param_buffer
                /\ pc' = "open"
          /\ tag_buffer' # tag_buffer =>
                /\ Len(tag_buffer) < 100
                /\ Len(tag_buffer') = Len(tag_buffer) + 1
                /\ SubSeq(tag_buffer', 1, Len(tag_buffer)) = tag_buffer
                /\ pc' = "open"
          /\ pc' = "panicked" /\ pc # "panicked" =>
                /\ param_buffer' = param_buffer
                /\ tag_buffer' = tag_buffer]_vars

C15_Witness ==
    /\ pc = "panicked"
    /\ Len(param_buffer) = 100
    /\ param_buffer[100] = 100
    /\ calls = <<>>

\* C16: new, log_param, log_tag and log_metric make no client or transport
\* call: no call is made before submit; and each of the three changes its own
\* buffer only, and none changes start_time.
C16_NoCallBeforeSubmit ==
    /\ [](pc # "submitted" => calls = <<>> /\ http = <<>>)
    /\ [][/\ start_time' = start_time
          /\ pc' # "submitted" => calls' = calls
          /\ param_buffer' # param_buffer =>
                tag_buffer' = tag_buffer /\ metric_buffer' = metric_buffer
          /\ tag_buffer' # tag_buffer =>
                param_buffer' = param_buffer /\ metric_buffer' = metric_buffer
          /\ metric_buffer' # metric_buffer =>
                param_buffer' = param_buffer /\ tag_buffer' = tag_buffer]_vars

C16_Witness ==
    /\ pc = "open"
    /\ Len(param_buffer) = 1 /\ Len(tag_buffer) = 1 /\ n_metrics = 1001
    /\ Len(metric_buffer) = 2
    /\ calls = <<>> /\ http = <<>>

-----------------------------------------------------------------------------
(* Properties of the client's operations (SpecClient).                      *)

RestClientOps ==
    {"create_experiment", "list_experiments", "get_experiment",
     "get_experiment_by_name", "delete_experiment", "update_experiment",
     "create_run", "delete_run", "get_run", "update_run", "search_runs",
     "list_run_infos", "get_metric_history", "log_param", "log_metric",
     "log_batch"}
ErrorKinds ==
    {"AlreadyExists", "DoesNotExist", "Storage"} \cup LimitKinds
EndpointOf(name) ==
    CASE name = "create_experiment" -> "CreateExperiment"
      [] name = "list_experiments" -> "ListExperiments"
      [] name = "get_experiment" -> "GetExperiment"
      [] name = "get_experiment_by_name" -> "GetExperimentByName"
      [] name = "delete_experiment" -> "DeleteExperiment"
      [] name = "update_experiment" -> "UpdateExperiment"
      [] name = "create_run" -> "CreateRun"
      [] name = "delete_run" -> "DeleteRun"
      [] name = "get_run" -> "GetRun"
      [] name = "update_run" -> "UpdateRun"
      [] name = "search_runs" -> "SearchRuns"
      [] name = "list_run_infos" -> "ListRunInfos"
      [] name = "get_metric_history" -> "GetHistory"
      [] name = "log_param" -> "LogParam"
      [] name = "log_metric" -> "LogMetric"
      [] name = "log_batch" -> "LogBatch"

\* C17: get_experiment, delete_experiment, get_run, delete_run, update_run and
\* get_metric_history turn a Known transport error with code
\* RESOURCE_DOES_NOT_EXIST into DoesNotExist carrying the id they were given
\* (the run id for get_metric_history), whatever the status, and every other
\* transport error into the Storage variant.
C17_IdDoesNotExist ==
    op.name \in {"get_experiment", "delete_experiment", "get_run", "delete_run",
                 "update_run", "get_metric_history"}
            /\ IsError(Answer) =>
        LET error == parse_error(Answer)
            id == IF op.name = "get_metric_history" THEN op.args.run ELSE op.args.id
        IN  IF error.variant = "Known" /\ error.code = ResourceDoesNotExist
            THEN result = Err(DoesNotExist(id))
            ELSE result = Err(Storage(error))

C17_Witness ==
    /\ op.name = "get_metric_history"
    /\ op.args.run = "r2"
    /\ Answer.status = 500
    /\ Answer.body = Envelope(Str(DOES_NOT_EXIST, FALSE), Str("x", FALSE))
    /\ result = Err(DoesNotExist("r2"))

\* C18: every fallible client operation, for every transport outcome, returns
\* its success value or an error of its declared kind; none panics, the
\* storage revision's create_experiment with its second request included.
C18_NoPanic ==
    op.name # "new" => result.ok \/ result.err.kind \in ErrorKinds

\* C19: when the response is no error but its body cannot be deserialized into
\* the endpoint's response type, the operation returns the Storage error; it
\* returns no success value and no AlreadyExists or DoesNotExist.
C19_BadBodyIsStorage ==
    op.name \in RestClientOps /\ Len(http) = 1 /\ ~IsError(Answer)
            /\ ~(/\ Answer.readable
                 /\ read_response_string(EndpointOf(op.name), Answer.body).ok) =>
        /\ ~result.ok
        /\ result.err.kind = "Storage"
        /\ "anyhow" \in DOMAIN result.err.cause

C19_Witness ==
    /\ op.name = "get_run"
    /\ Answer.status = 200 /\ Answer.readable
    /\ Answer.body = Obj([run |-> RunDoc("r1", RunInfoDoc("r1", "running",
                                         Str("1600000000", FALSE), <<>>))])
    /\ ~result.ok /\ result.err.kind = "Storage"

\* C20: an invocation of a REST client operation that passes the client-side
\* validation issues exactly one HTTP request, whether it succeeds or fails;
\* nothing is sent again.
C20_OneRequest ==
    op.name \in RestClientOps /\ (op.name = "log_batch" => WithinLimits(op.args)) =>
        /\ Len(http) = 1
        /\ Len(response) = 1
        /\ http[1].method = METHOD(EndpointOf(op.name))

C20_Witness ==
    /\ op.name = "update_run"
    /\ Answer.status = 500
    /\ Len(http) = 1
    /\ ~result.ok /\ result.err.kind = "Storage"

-----------------------------------------------------------------------------
(* Properties of the requests the client issues (SpecClient).               *)

\* C21: every request of an operation whose method is GET carries its
\* parameters as a query string and has no body, and every request of an
\* operation whose method is POST carries them as a JSON body and has no
\* query string; the storage revision's get_experiment and create_experiment
\* are operations of the client too.
C21_QueryOrBody ==
    \A i \in 1..Len(http) :
        IF http[i].method = "Get"
        THEN http[i].query # None /\ http[i].body = None
        ELSE http[i].body # None /\ http[i].query = None

\* C22: search_runs and list_run_infos both issue a POST request whose URL is
\* the base URL joined with the path suffix 2.0/mlflow/runs/search.
C22_SearchUrl ==
    op.name \in {"search_runs", "list_run_infos"} =>
        /\ Len(http) = 1
        /\ http[1].method = "Post"
        /\ http[1].url = api_url \o "/" \o "2.0/mlflow/runs/search"

\* the method and path suffix (under 2.0/mlflow/) the protocol gives the
\* operations
Routes ==
    [create_experiment |-> <<"Post", "experiments/create">>,
     get_experiment |-> <<"Get", "experiments/get">>,
     get_experiment_by_name |-> <<"Get", "experiments/get-by-name">>,
     list_experiments |-> <<"Get", "experiments/list">>,
     update_experiment |-> <<"Post", "experiments/update">>,
     delete_experiment |-> <<"Post", "experiments/delete">>,
     create_run |-> <<"Post", "runs/create">>,
     delete_run |-> <<"Post", "runs/delete">>,
     update_run |-> <<"Post", "runs/update">>,
     log_param |-> <<"Post", "runs/log-parameter">>,
     log_metric |-> <<"Post", "runs/log-metric">>,
     log_batch |-> <<"Post", "runs/log-batch">>,
     get_metric_history |-> <<"Get", "metrics/get-history">>]

SharedSuffix(a, b) == {a, b} = {"search_runs", "list_run_infos"}

\* C23: the request URL of every client operation is the base URL, a '/' and
\* the operation's path suffix; the thirteen operations of the table use the
\* method and suffix the table gives them; no operation has an empty suffix
\* and none shares its suffix with another operation, search_runs and
\* list_run_infos excepted.
C23_UrlTable ==
    op.name \in RestClientOps /\ http # <<>> =>
        LET suffix == PATH(EndpointOf(op.name))
        IN  /\ http[1].url = api_url \o "/" \o suffix
            /\ suffix # ""
            /\ op.name \in DOMAIN Routes =>
                /\ http[1].method = Routes[op.name][1]
                /\ suffix = "2.0/mlflow/" \o Routes[op.name][2]
            /\ \A other \in RestClientOps \ {op.name} :
                ~SharedSuffix(op.name, other) =>
                    PATH(EndpointOf(other)) # suffix

\* C24: list_run_infos sends the request search_runs sends for the one
\* experiment and an empty filter; on success it returns the info of each run
\* of the response, as many and in the same order, without the run's data,
\* and page_token is the response's next_page_token.
C24_ListRunInfos ==
    op.name = "list_run_infos" =>
        LET a == op.args
            searched == search_runs(<<a.experiment>>, "", a.run_view_type,
                                    a.max_results, a.order_by, a.page_token, Answer)
            runs == elements(Answer.body, "runs")
        IN  /\ http = searched.http
            /\ result.ok =>
                /\ Len(result.value.runs) = Len(runs)
                /\ \A i \in 1..Len(runs) :
                    /\ result.value.runs[i] =
                            RunInfo_deserialize(field(runs[i], "info")).value
                    /\ "data" \notin DOMAIN result.value.runs[i]
                /\ result.value.page_token =
                        field(Answer.body, "next_page_token").text

C24_Witness ==
    /\ op.name = "list_run_infos"
    /\ op.args.page_token = Some("p1")
    /\ result.ok
    /\ Len(result.value.runs) = 2
    /\ result.value.runs[1].run_id = "r1" /\ result.value.runs[1].end_time = None
    /\ result.value.runs[2].run_id = "r2"
    /\ result.value.runs[2].end_time = Some(1600000001)
    /\ result.value.page_token = "p2"

-----------------------------------------------------------------------------
(* Properties of the codecs (SpecCodec).                                    *)

\* the token the protocol gives each status
StatusToken ==
    [Running |-> "RUNNING", Scheduled |-> "SCHEDULED", Finished |-> "FINISHED",
     Failed |-> "FAILED", Killed |-> "KILLED"]
KnownTokens == {StatusToken[v] : v \in DOMAIN StatusToken}

\* C25: RunStatus encodes its five values as the tokens RUNNING, SCHEDULED,
\* FINISHED, FAILED and KILLED; decoding inverts encoding; decoding any other
\* token, a lower-case or mixed-case spelling included, fails and yields no
\* status, also when the token is the status of a RunInfo in a response.
C25_RunStatusTokens ==
    /\ op.name = "RunStatus::serialize" =>
        /\ result = Ok(Str(StatusToken[op.args.status], FALSE))
        /\ RunStatus_deserialize(Obj([status |-> result.value]), "status")
                = Ok(op.args.status)
    /\ op.name = "RunStatus::deserialize" =>
        IF op.args.token.text \in KnownTokens
        THEN result.ok /\ StatusToken[result.value] = op.args.token.text
        ELSE ~result.ok
    /\ op.name = "update_run" /\ result.ok =>
        /\ StatusToken[result.value.status]
                = field(field(Answer.body, "run_info"), "status").text
        /\ http[1].body.status \in DOMAIN StatusToken
        /\ UpdateRun_serialize(http[1].body).fields.status.text
                = StatusToken[op.args.status]
    /\ op.name = "get_run" /\ result.ok =>
        StatusToken[result.value.info.status]
            = field(field(field(Answer.body, "run"), "info"), "status").text

C25_Witness ==
    /\ op.name = "RunStatus::deserialize"
    /\ op.args.token.text = "Running"
    /\ ~result.ok

\* C26: decoding the numeric-string encoding of an i64 gives the i64 back,
\* negative values and zero included; for end_time None is written as null
\* (or left out) and read back as None, and Some(t) as Some(t); and what
\* create_run sends as start_time and update_run sends as end_time is
\* written in the encoding RunInfo accepts for these fields.
C26_TimesSymmetric ==
    /\ op.name = "str_int" => result = Ok(op.args.int)
    /\ op.name = "opt_str_int" => result = Ok(op.args.int)
    /\ op.name = "create_run" =>
        str_int_deserialize(CreateRun_serialize(http[1].body), "start_time")
            = Ok(op.args.start_time)
    /\ op.name = "update_run" =>
        opt_str_int_deserialize(UpdateRun_serialize(http[1].body), "end_time")
            = Ok(Some(op.args.end_time))

-----------------------------------------------------------------------------
(* Properties of the experiment envelope (SpecClient).                      *)

\* C27: for every envelope {"experiment": {...}} that deserializes, with or
\* without creation_time, last_update_time and tags, serializing the record
\* read and deserializing it again gives the same record, and the value
\* get_experiment returns is the inner experiment, its experiment_id being
\* the string of the envelope.
C27_ExperimentRoundTrip ==
    op.name \in {"get_experiment", "get_experiment_by_name"} /\ result.ok =>
        LET ep == EndpointOf(op.name)
            first == read_response_string(ep, Answer.body)
            written == Obj([experiment |-> Experiment_serialize(result.value)])
        IN  /\ result.value = first.value.experiment
            /\ read_response_string(ep, written) = first
            /\ result.value.experiment_id
                    = field(field(Answer.body, "experiment"), "experiment_id").text

C27_Witness ==
    /\ op.name = "get_experiment"
    /\ result.ok
    /\ result.value.experiment_id = "7"
    /\ result.value.creation_time = Some(1600000000)
    /\ result.value.tags # None
    /\ result.value.tags.some[1].value = "a \"b\""

-----------------------------------------------------------------------------
(* Properties of the batches a TrackingRun submits (SpecRun).               *)

\* C28: every log_batch call submit issues is within the client-side limits:
\* the call with the params and tags has no metrics, at most 100 params, at
\* most 100 tags and at most 200 items; every later call has at most 1000
\* metrics and no params or tags; so Server::log_batch rejects none of them
\* with a too-many error.
C28_BatchesWithinLimits ==
    \A i \in 1..Len(calls) :
        calls[i].op = "log_batch" =>
            /\ IF i = 2
               THEN /\ calls[i].metrics = <<>>
                    /\ Len(calls[i].params) <= 100
                    /\ Len(calls[i].tags) <= 100
                    /\ Len(calls[i].params) + Len(calls[i].tags) <= 200
               ELSE /\ Len(calls[i].metrics) <= 1000
                    /\ calls[i].params = <<>>
                    /\ calls[i].tags = <<>>
            /\ log_batch(calls[i].run, calls[i].metrics, calls[i].params,
                         calls[i].tags, AnyResponse).http # <<>>

C28_Witness ==
    /\ Submitted /\ AllSucceeded
    /\ Len(calls) = 4
    /\ Len(calls[2].params) = 1
    /\ Len(calls[2].tags) = 100
    /\ Len(calls[3].metrics) = 1

\* C29: the metric buffer always holds at least one chunk and only the chunk
\* it starts with can be empty; a submit whose calls all succeed therefore
\* issues max(1, ceil(N/1000)) log_batch calls for the N metrics logged: one
\* with no metrics, params or tags when N = 0, and no empty one after the
\* full chunks when N is 1000 or 2000.
C29_AtLeastOneChunk ==
    /\ Len(metric_buffer) >= 1
    /\ \A i \in 1..Len(metric_buffer) :
        metric_buffer[i] = <<>> => i = 1 /\ n_metrics = 0
    /\ Submitted /\ AllSucceeded =>
        LET batches == SubSeq(CallsOf("log_batch"), 2, Len(CallsOf("log_batch")))
        IN  /\ Len(batches) = IF n_metrics = 0 THEN 1 ELSE Ceil1000(n_metrics)
            /\ n_metrics = 0 =>
                /\ batches[1].metrics = <<>>
                /\ batches[1].params = <<>>
                /\ batches[1].tags = <<>>
            /\ n_metrics \in {1000, 2000} =>
                /\ Len(batches) = n_metrics \div 1000
                /\ \A i \in 1..Len(batches) : Len(batches[i].metrics) = 1000

C29_Witness ==
    /\ Submitted /\ AllSucceeded
    /\ n_metrics = 0
    /\ Len(calls) = 4
    /\ calls[3].op = "log_batch"
    /\ calls[3].metrics = <<>> /\ calls[3].params = <<>> /\ calls[3].tags = <<>>

-----------------------------------------------------------------------------
(* Properties of the storage revision's flush (SpecStorage).                *)

\* C30: the storage revision's log_batch, given n buffered metrics and
\* requests that all succeed, sends ceil(n/1000) requests of at most 1000
\* metrics each, every metric once and in order, and returns with the buffer
\* empty.
C30_FlushTerminates ==
    op.name = "storage_log_batch" =>
        LET n == op.args.metrics
        IN  /\ Len(http) <= Ceil1000(n)
            /\ \A i \in 1..Len(http) :
                /\ Len(http[i].body.metrics) <= 1000
                /\ http[i].body.metrics =
                      [k \in 1..Len(http[i].body.metrics) |-> 1000 * (i - 1) + k]
            /\ result.ok => storage_buffer = <<>> /\ Len(http) = Ceil1000(n)
            /\ (\A i \in 1..Len(response) : ~IsError(response[i]))
                    /\ Len(http) = Ceil1000(n) => storage_buffer = <<>>

====
